---- MODULE Spec2Model ----
(***************************************************************************)
(* A model of the libdns provider for nearlyfreespeech.net (package nfsn). *)
(*                                                                         *)
(* Strings the code takes apart or puts together (names, data, decimal     *)
(* numbers, salts) are sequences of one-character strings, so formatting   *)
(* and parsing are computed, not assumed.  Durations are counted in ticks, *)
(* TicksPerSecond to the second.                                           *)
(***************************************************************************)
EXTENDS Integers, Sequences, FiniteSets, TLC

\* ------------------------------------------------------------------ bounds
NumProcs == 2           \* goroutines calling into one Provider
MaxRecords == 3         \* longest input list of a batch call
MaxList == 2            \* longest record array of a listRRs response
TicksPerSecond == 2     \* resolution of a Duration

\* --------------------------------------------------------------- constants
saltLen == 16
minimumTTL == 180 * TicksPerSecond
saltChars ==
  << "A","B","C","D","E","F","G","H","I","J","K","L","M",
     "N","O","P","Q","R","S","T","U","V","W","X","Y","Z",
     "a","b","c","d","e","f","g","h","i","j","j","k","l","m",
     "n","o","p","q","r","s","t","u","v","w","x","y","z",
     "0","1","2","3","4","5","6","7","8","9" >>

\* ------------------------------------------------------- strings, numbers
Digits == << "0","1","2","3","4","5","6","7","8","9" >>
WhiteSpace == { " ", "\t", "\n", "\r" }

\* fmt.Sprintf("%d", n)
RECURSIVE Itoa(_)
Itoa(n) ==
  IF n < 0 THEN << "-" >> \o Itoa(-n)
  ELSE IF n < 10 THEN << Digits[n + 1] >>
  ELSE Itoa(n \div 10) \o << Digits[(n % 10) + 1] >>

DigitVal(c) == CHOOSE d \in 0..9 : Digits[d + 1] = c
IsDigit(c) == \E d \in 0..9 : Digits[d + 1] = c

RECURSIVE DecVal(_)
DecVal(s) ==
  IF s = << >> THEN 0
  ELSE 10 * DecVal(SubSeq(s, 1, Len(s) - 1)) + DigitVal(s[Len(s)])

\* strconv.ParseUint(s, 10, 16): digits only, no sign, value below 2^16
ParseUintAnyWidth(s) ==
  IF s = << >> \/ \E i \in 1..Len(s) : ~IsDigit(s[i])
  THEN [ok |-> FALSE, val |-> 0]
  ELSE [ok |-> TRUE, val |-> DecVal(s)]
ParseUint16(s) ==
  IF s = << >> \/ \E i \in 1..Len(s) : ~IsDigit(s[i])
  THEN [ok |-> FALSE, val |-> 0]
  ELSE IF DecVal(s) > 65535 THEN [ok |-> FALSE, val |-> 65535]
  ELSE [ok |-> TRUE, val |-> DecVal(s)]

\* uint16(n) of an int
Uint16(n) == n % 65536

\* index of the first c in s, 0 when absent
IndexOf(s, c) ==
  IF \E i \in 1..Len(s) : s[i] = c
  THEN CHOOSE i \in 1..Len(s) : s[i] = c /\ \A j \in 1..(i - 1) : s[j] # c
  ELSE 0

\* strings.SplitN(s, c, n) for n >= 1
RECURSIVE SplitN(_, _, _)
SplitN(s, c, n) ==
  IF n <= 1 \/ IndexOf(s, c) = 0 THEN << s >>
  ELSE << SubSeq(s, 1, IndexOf(s, c) - 1) >>
       \o SplitN(SubSeq(s, IndexOf(s, c) + 1, Len(s)), c, n - 1)

\* strings.Fields(s): the maximal runs of non-space characters
RECURSIVE FieldsFrom(_, _)
FieldsFrom(s, cur) ==
  IF s = << >> THEN (IF cur = << >> THEN << >> ELSE << cur >>)
  ELSE IF Head(s) \in WhiteSpace
       THEN (IF cur = << >> THEN << >> ELSE << cur >>) \o FieldsFrom(Tail(s), << >>)
       ELSE FieldsFrom(Tail(s), Append(cur, Head(s)))
Fields(s) == FieldsFrom(s, << >>)

\* strings.TrimPrefix(s, "_")
TrimUnderscore(s) ==
  IF s # << >> /\ Head(s) = "_" THEN Tail(s) ELSE s

\* ------------------------------------------------------------ type names
tA == << "A" >>
tAAAA == << "A","A","A","A" >>
tCNAME == << "C","N","A","M","E" >>
tNS == << "N","S" >>
tPTR == << "P","T","R" >>
tMX == << "M","X" >>
tTXT == << "T","X","T" >>
tSRV == << "S","R","V" >>
tCAA == << "C","A","A" >>
tLOC == << "L","O","C" >>
Apex == << "@" >>

\* --------------------------------------------------------------- addresses
\* netip.Addr values the model uses: the family and the canonical text.
ip4 == [is4 |-> TRUE, text |-> << "1",".","2",".","3",".","4" >>]
ip6 == [is4 |-> FALSE, text |-> << "2","0","0","1",":",":","1" >>]

\* an IPv4-mapped IPv6 address: sixteen bytes, Is4() false
ip4in6 == [is4 |-> FALSE,
           text |-> << ":",":","f","f","f","f",":","1",".","2",".","3",".","4" >>]
\* another spelling of ip6
ip6Long == << "2","0","0","1",":","0",":",":","1" >>

\* netip.ParseAddr on the literals of the model: the canonical texts and one
\* longer spelling; any other text is no IP literal.
ParseAddr(s) ==
  IF s = ip4.text THEN [ok |-> TRUE, ip |-> ip4]
  ELSE IF s = ip6.text \/ s = ip6Long THEN [ok |-> TRUE, ip |-> ip6]
  ELSE IF s = ip4in6.text THEN [ok |-> TRUE, ip |-> ip4in6]
  ELSE [ok |-> FALSE, ip |-> ip4]

\* ----------------------------------------------------------------- codec
nameForLibdnsKeeps(nfsName) == nfsName
nameForLibdns(nfsName) == IF nfsName = << >> THEN Apex ELSE nfsName

nameForNfsnKeeps(libdnsName) == libdnsName
nameForNfsn(libdnsName) == IF libdnsName = Apex THEN << >> ELSE libdnsName

ttlForNfsnUnfloored(libdnsTtl) == Itoa(libdnsTtl \div TicksPerSecond)
ttlForNfsn(libdnsTtl) ==
  LET ttl == IF libdnsTtl < minimumTTL THEN minimumTTL ELSE libdnsTtl
  IN  Itoa(ttl \div TicksPerSecond)

\* time.Second * time.Duration(nRecord.TTL)
SecondsToDurationFloored(n) ==
  IF n * TicksPerSecond < minimumTTL THEN minimumTTL ELSE n * TicksPerSecond
SecondsToDuration(n) == n * TicksPerSecond

NoRecord == [kind |-> "none"]

\* nfsnRecord.record(): the generic record of a wire record, or an error
recordAllRaw(nRecord) ==
  [ok |-> TRUE,
   rec |-> [kind |-> "RR", Type |-> nRecord.Type, Name |-> nameForLibdns(nRecord.Name),
            Data |-> nRecord.Data, TTL |-> SecondsToDuration(nRecord.TTL)]]
record(nRecord) ==
  IF nRecord.Type = tA \/ nRecord.Type = tAAAA THEN
    IF ~ParseAddr(nRecord.Data).ok THEN [ok |-> FALSE, rec |-> NoRecord]
    ELSE [ok |-> TRUE,
          rec |-> [kind |-> "Address", Name |-> nameForLibdns(nRecord.Name),
                   IP |-> ParseAddr(nRecord.Data).ip,
                   TTL |-> SecondsToDuration(nRecord.TTL)]]
  ELSE IF nRecord.Type = tCNAME THEN
    [ok |-> TRUE,
     rec |-> [kind |-> "CNAME", Name |-> nameForLibdns(nRecord.Name),
              Target |-> nRecord.Data, TTL |-> SecondsToDuration(nRecord.TTL)]]
  ELSE IF nRecord.Type = tNS THEN
    [ok |-> TRUE,
     rec |-> [kind |-> "NS", Name |-> nameForLibdns(nRecord.Name),
              Target |-> nRecord.Data, TTL |-> SecondsToDuration(nRecord.TTL)]]
  ELSE IF nRecord.Type = tPTR THEN
    [ok |-> TRUE,
     rec |-> [kind |-> "RR", Type |-> tPTR, Name |-> nameForLibdns(nRecord.Name),
              Data |-> nRecord.Data, TTL |-> SecondsToDuration(nRecord.TTL)]]
  ELSE IF nRecord.Type = tMX THEN
    [ok |-> TRUE,
     rec |-> [kind |-> "MX", Name |-> nameForLibdns(nRecord.Name),
              Target |-> nRecord.Data, TTL |-> SecondsToDuration(nRecord.TTL),
              Preference |-> Uint16(nRecord.Aux)]]
  ELSE IF nRecord.Type = tTXT THEN
    [ok |-> TRUE,
     rec |-> [kind |-> "TXT", Name |-> nameForLibdns(nRecord.Name),
              Text |-> nRecord.Data, TTL |-> SecondsToDuration(nRecord.TTL)]]
  ELSE IF nRecord.Type = tSRV THEN
    LET nameFields == SplitN(nRecord.Name, ".", 3)
        name == IF Len(nameFields) = 3 /\ nameFields[3] # << >>
                THEN nameFields[3] ELSE Apex
        dataFields == Fields(nRecord.Data)
    IN  IF Len(nameFields) < 2 THEN [ok |-> FALSE, rec |-> NoRecord]
        ELSE IF Len(dataFields) # 3 THEN [ok |-> FALSE, rec |-> NoRecord]
        ELSE IF ~ParseUint16(dataFields[1]).ok THEN [ok |-> FALSE, rec |-> NoRecord]
        ELSE IF ~ParseUint16(dataFields[2]).ok THEN [ok |-> FALSE, rec |-> NoRecord]
        ELSE [ok |-> TRUE,
              rec |-> [kind |-> "SRV",
                       Service |-> TrimUnderscore(nameFields[1]),
                       Transport |-> TrimUnderscore(nameFields[2]),
                       Name |-> name,
                       TTL |-> SecondsToDuration(nRecord.TTL),
                       Priority |-> Uint16(nRecord.Aux),
                       Weight |-> ParseUint16(dataFields[1]).val,
                       Port |-> ParseUint16(dataFields[2]).val,
                       Target |-> dataFields[3]]]
  ELSE [ok |-> FALSE, rec |-> NoRecord]

NoParams == [k \in {} |-> << >>]

\* the type of an Address record: A for r.IP.Is4(), AAAA otherwise
addressTypeA(ip) == tA
addressType(ip) == IF ip.is4 THEN tA ELSE tAAAA

\* innerToNfsnRecordParameters: the url.Values of a typed record, or an error
innerSrvBare(r) ==
  IF r.kind = "SRV"
  THEN [ok |-> TRUE,
        params |-> [type |-> tSRV,
                    name |-> r.Service \o << "." >> \o r.Transport
                             \o (IF r.Name = Apex THEN << >> ELSE << "." >> \o r.Name),
                    data |-> Itoa(r.Weight) \o << " " >> \o Itoa(r.Port)
                             \o << " " >> \o r.Target,
                    aux |-> Itoa(r.Priority),
                    ttl |-> ttlForNfsn(r.TTL)]]
  ELSE [ok |-> FALSE, params |-> NoParams]
innerMxAuxInData(r) ==
  IF r.kind = "MX"
  THEN [ok |-> TRUE,
        params |-> [type |-> tMX, name |-> nameForNfsn(r.Name),
                    data |-> Itoa(r.Preference) \o << " " >> \o r.Target,
                    ttl |-> ttlForNfsn(r.TTL)]]
  ELSE [ok |-> FALSE, params |-> NoParams]
innerPassesRaw(r) ==
  IF r.kind = "RR"
  THEN [ok |-> TRUE,
        params |-> [type |-> r.Type, name |-> nameForNfsn(r.Name),
                    data |-> r.Data, ttl |-> ttlForNfsn(r.TTL)]]
  ELSE [ok |-> FALSE, params |-> NoParams]
innerToNfsnRecordParameters(r) ==
  IF r.kind = "Address" THEN
    [ok |-> TRUE,
     params |-> [type |-> addressType(r.IP),
                 name |-> nameForNfsn(r.Name),
                 data |-> r.IP.text,
                 ttl |-> ttlForNfsn(r.TTL)]]
  ELSE IF r.kind = "CNAME" THEN
    [ok |-> TRUE,
     params |-> [type |-> tCNAME, name |-> nameForNfsn(r.Name),
                 data |-> r.Target, ttl |-> ttlForNfsn(r.TTL)]]
  ELSE IF r.kind = "MX" THEN
    [ok |-> TRUE,
     params |-> [type |-> tMX, name |-> nameForNfsn(r.Name),
                 data |-> r.Target, aux |-> Itoa(r.Preference),
                 ttl |-> ttlForNfsn(r.TTL)]]
  ELSE IF r.kind = "NS" THEN
    [ok |-> TRUE,
     params |-> [type |-> tNS, name |-> nameForNfsn(r.Name),
                 data |-> r.Target, ttl |-> ttlForNfsn(r.TTL)]]
  ELSE IF r.kind = "SRV" THEN
    LET name == IF nameForNfsn(r.Name) # << >>
                THEN << "." >> \o nameForNfsn(r.Name) ELSE << >>
    IN  [ok |-> TRUE,
         params |-> [type |-> tSRV,
                     name |-> << "_" >> \o r.Service \o << ".", "_" >>
                              \o r.Transport \o name,
                     data |-> Itoa(r.Weight) \o << " " >> \o Itoa(r.Port)
                              \o << " " >> \o r.Target,
                     aux |-> Itoa(r.Priority),
                     ttl |-> ttlForNfsn(r.TTL)]]
  ELSE IF r.kind = "TXT" THEN
    [ok |-> TRUE,
     params |-> [type |-> tTXT, name |-> nameForNfsn(r.Name),
                 data |-> r.Text, ttl |-> ttlForNfsn(r.TTL)]]
  ELSE IF r.kind = "RR" /\ r.Type = tPTR THEN
    [ok |-> TRUE,
     params |-> [type |-> tPTR, name |-> nameForNfsn(r.Name),
                 data |-> r.Data, ttl |-> ttlForNfsn(r.TTL)]]
  ELSE [ok |-> FALSE, params |-> NoParams]

\* toNfsnRecordParameters: a raw RR is parsed first; the raw records of the
\* model carry types RR.Parse leaves as they are (PTR and unknown types).
toNfsnRecordParameters(r) == innerToNfsnRecordParameters(r)

\* ------------------------------------------------------------ the signer
apiBase ==
  << "h","t","t","p","s",":","/","/","a","p","i",".","n","e","a","r",
     "l","y","f","r","e","e","s","p","e","e","c","h",".","n","e","t" >>
authHeader == "X-NFSN-Authentication"
Login == << "m","e" >>
APIKey == << "k","e","y" >>
Times == { 1012121212, 1012121213 }     \* readings of time.Now().Unix()

listRRs == << "l","i","s","t","R","R","s" >>
addRR == << "a","d","d","R","R" >>
replaceRR == << "r","e","p","l","a","c","e","R","R" >>
removeRR == << "r","e","m","o","v","e","R","R" >>

\* strings.TrimRight(zone, ".")
TrimRightOneDot(zone) ==
  IF zone # << >> /\ zone[Len(zone)] = "." THEN SubSeq(zone, 1, Len(zone) - 1) ELSE zone
RECURSIVE TrimRightDots(_)
TrimRightDots(zone) ==
  IF zone # << >> /\ zone[Len(zone)] = "."
  THEN TrimRightDots(SubSeq(zone, 1, Len(zone) - 1)) ELSE zone

\* the path of the request URI: /dns/{zone}/{resource}
pathForZone(zone, resource) ==
  << "/","d","n","s","/" >> \o TrimRightDots(zone) \o << "/" >> \o resource

uriForZone(zone, resource) == apiBase \o pathForZone(zone, resource)

\* url.Values.Encode(): the pairs key=value in the order of the keys
ParamOrder == << "aux", "data", "name", "ttl", "type" >>
RECURSIVE EncodeFrom(_, _)
EncodeFrom(params, keys) ==
  IF keys = << >> THEN << >>
  ELSE (IF Head(keys) \in DOMAIN params
        THEN << << Head(keys), params[Head(keys)] >> >> ELSE << >>)
       \o EncodeFrom(params, Tail(keys))
Encode(params) == EncodeFrom(params, ParamOrder)

\* a request body: absent (io.Reader nil) or a reader over bytes
NoBody == [present |-> FALSE, bytes |-> << >>]
BodyOf(bytes) == [present |-> TRUE, bytes |-> bytes]

\* crypto/sha1: an injective digest
Sha1(x) == << "sha1", x >>

\* the fields of a Provider the signer reads
ProviderCfg == [Login |-> Login, APIKey |-> APIKey]
TestProvider ==
  [Login |-> << "t","e","s","t","u","s","e","r" >>,
   APIKey |-> << "p","3","k","x","m","R","K","f","9","d","k","3","l","6","l","s" >>]

\* innerGetAuthValue of the provider p: LOGIN;TIMESTAMP;SALT;HASH over the
\* path and the body, and the body it leaves in the request
innerGetAuthValueOfPathFirst(p, path, body, timestamp, salt) ==
  LET bodyBytes == IF body.present THEN body.bytes ELSE << >>
      hText == << p.Login, Itoa(timestamp), salt, path, p.APIKey, Sha1(bodyBytes) >>
  IN  [value |-> << p.Login, Itoa(timestamp), salt, Sha1(hText) >>,
       body |-> BodyOf(bodyBytes)]
innerGetAuthValueOf(p, path, body, timestamp, salt) ==
  LET bodyBytes == IF body.present THEN body.bytes ELSE << >>
      bodyHash == Sha1(bodyBytes)
      hText == << p.Login, Itoa(timestamp), salt, p.APIKey, path, bodyHash >>
  IN  [value |-> << p.Login, Itoa(timestamp), salt, Sha1(hText) >>,
       body |-> BodyOf(bodyBytes)]

\* innerGetAuthValue of the configured provider
innerGetAuthValueConsumes(path, body, timestamp, salt) ==
  [innerGetAuthValueOf(ProviderCfg, path, body, timestamp, salt)
     EXCEPT !.body = BodyOf(<< >>)]
innerGetAuthValue(path, body, timestamp, salt) ==
  innerGetAuthValueOf(ProviderCfg, path, body, timestamp, salt)

\* ------------------------------------------- the token as bytes: SHA-1
\* the bytes of a text: the ASCII codes of its characters
BytesOf(text) ==
  LET
      AsciiRuns ==
        << [first |-> 45, chars |-> << "-",".","/","0","1","2","3","4","5","6","7","8","9",
                                        ":",";","<","=",">","?","@" >>],
           [first |-> 65, chars |-> << "A","B","C","D","E","F","G","H","I","J","K","L","M",
                                        "N","O","P","Q","R","S","T","U","V","W","X","Y","Z" >>],
           [first |-> 95, chars |-> << "_" >>],
           [first |-> 97, chars |-> << "a","b","c","d","e","f","g","h","i","j","k","l","m",
                                        "n","o","p","q","r","s","t","u","v","w","x","y","z" >>] >>
      ByteOf(c) ==
        LET run == CHOOSE r \in 1..Len(AsciiRuns) :
                     \E i \in 1..Len(AsciiRuns[r].chars) : AsciiRuns[r].chars[i] = c
            at == CHOOSE i \in 1..Len(AsciiRuns[run].chars) : AsciiRuns[run].chars[i] = c
        IN  AsciiRuns[run].first + at - 1
  IN  [i \in 1..Len(text) |-> ByteOf(text[i])]

\* sha1.Sum: the digest of the bytes as five 32-bit words
sha1Sum(bytes) ==
  LET
      \* 32-bit words as two 16-bit halves << high, low >>
      Half == 65536
      RECURSIVE And16(_, _)
      And16(a, b) ==
        IF a = 0 \/ b = 0 THEN 0
        ELSE 2 * And16(a \div 2, b \div 2) + ((a % 2) * (b % 2))
      Xor16(a, b) == a + b - 2 * And16(a, b)
      Or16(a, b) == a + b - And16(a, b)
      And32(x, y) == << And16(x[1], y[1]), And16(x[2], y[2]) >>
      Or32(x, y) == << Or16(x[1], y[1]), Or16(x[2], y[2]) >>
      Xor32(x, y) == << Xor16(x[1], y[1]), Xor16(x[2], y[2]) >>
      Not32(x) == << Half - 1 - x[1], Half - 1 - x[2] >>
      Add32(x, y) ==
        << (x[1] + y[1] + ((x[2] + y[2]) \div Half)) % Half, (x[2] + y[2]) % Half >>
      \* rotation to the left by n bits, n < 16, and by 30 bits
      RotlShort(x, n) ==
        << ((x[1] * 2^n) % Half) + (x[2] \div 2^(16 - n)),
           ((x[2] * 2^n) % Half) + (x[1] \div 2^(16 - n)) >>
      Rotl30(x) == RotlShort(<< x[2], x[1] >>, 14)

      \* the padding: 0x80, zeros up to 56 modulo 64, the length in bits in 8 bytes
      Zeros(n) == [i \in 1..n |-> 0]
      Pad(msg) ==
        LET n == Len(msg)
            z == (119 - (n % 64)) % 64
            bits == 8 * n
        IN  msg \o << 128 >> \o Zeros(z) \o Zeros(4)
            \o << (bits \div 16777216) % 256, (bits \div 65536) % 256,
                  (bits \div 256) % 256, bits % 256 >>
      \* the sixteen words of block k (from 0) of the padded message
      BlockWords(p, k) ==
        [t \in 1..16 |->
           LET o == 64 * k + 4 * (t - 1)
           IN  << p[o + 1] * 256 + p[o + 2], p[o + 3] * 256 + p[o + 4] >>]
      \* the message schedule of a block: k more words after those of w, up to
      \* eighty (the halving, and the test that has the first half computed before
      \* the second is asked for, keep the evaluation shallow)
      RECURSIVE Extend(_, _)
      Extend(w, k) ==
        IF k = 0 THEN w
        ELSE IF k = 1
        THEN LET n == Len(w)
             IN  Append(w, RotlShort(Xor32(Xor32(w[n - 2], w[n - 7]),
                                           Xor32(w[n - 13], w[n - 15])), 1))
        ELSE LET first == Extend(w, k \div 2)
             IN  IF Len(first) > 0 THEN Extend(first, k - (k \div 2)) ELSE first
      Schedule(w) == Extend(w, 80 - Len(w))

      RoundF(t, b, c, d) ==
        IF t < 20 THEN Or32(And32(b, c), And32(Not32(b), d))
        ELSE IF t < 40 THEN Xor32(Xor32(b, c), d)
        ELSE IF t < 60 THEN Or32(Or32(And32(b, c), And32(b, d)), And32(c, d))
        ELSE Xor32(Xor32(b, c), d)
      RoundK(t) ==
        IF t < 20 THEN << 23170, 31129 >>
        ELSE IF t < 40 THEN << 28377, 60321 >>
        ELSE IF t < 60 THEN << 36635, 48348 >>
        ELSE << 51810, 49622 >>
      \* round t on the working variables h = << a, b, c, d, e >>
      Round(t, h, w) ==
        << Add32(Add32(Add32(RotlShort(h[1], 5), RoundF(t, h[2], h[3], h[4])),
                       Add32(h[5], RoundK(t))), w[t + 1]),
           h[1], Rotl30(h[2]), h[3], h[4] >>
      \* the rounds from..to-1 (halved as the schedule is)
      RECURSIVE Rounds(_, _, _, _)
      Rounds(from, to, h, w) ==
        IF to = from THEN h
        ELSE IF to = from + 1 THEN Round(from, h, w)
        ELSE LET mid == from + ((to - from) \div 2)
                 first == Rounds(from, mid, h, w)
             IN  IF Len(first) > 0 THEN Rounds(mid, to, first, w) ELSE first
      InitialHash ==
        << << 26437, 8961 >>, << 61389, 43913 >>, << 39098, 56574 >>,
           << 4146, 21622 >>, << 50130, 57840 >> >>
      RECURSIVE Blocks(_, _, _)
      Blocks(p, k, h) ==
        IF 64 * k >= Len(p) THEN h
        ELSE LET r == Rounds(0, 80, h, Schedule(BlockWords(p, k)))
             IN  Blocks(p, k + 1, [i \in 1..5 |-> Add32(h[i], r[i])])
  IN  Blocks(Pad(bytes), 0, InitialHash)

\* fmt %x of the digest: forty lower-case hexadecimal digits
Hex16Upper(v) ==
  LET d == << "0","1","2","3","4","5","6","7","8","9","A","B","C","D","E","F" >>
  IN  << d[(v \div 4096) + 1], d[((v \div 256) % 16) + 1],
         d[((v \div 16) % 16) + 1], d[(v % 16) + 1] >>
Hex16(v) ==
  LET HexDigits == << "0","1","2","3","4","5","6","7","8","9","a","b","c","d","e","f" >>
  IN  << HexDigits[(v \div 4096) + 1], HexDigits[((v \div 256) % 16) + 1],
         HexDigits[((v \div 16) % 16) + 1], HexDigits[(v % 16) + 1] >>
Hex(sum) ==
  Hex16(sum[1][1]) \o Hex16(sum[1][2]) \o Hex16(sum[2][1]) \o Hex16(sum[2][2])
  \o Hex16(sum[3][1]) \o Hex16(sum[3][2]) \o Hex16(sum[4][1]) \o Hex16(sum[4][2])
  \o Hex16(sum[5][1]) \o Hex16(sum[5][2])

\* fmt.Sprintf("%s;%d;%s;..."): the fields with a semicolon between them
RECURSIVE Sprintf(_)
Sprintf(fields) ==
  IF Len(fields) = 0 THEN << >>
  ELSE IF Len(fields) = 1 THEN Head(fields)
  ELSE Head(fields) \o << ";" >> \o Sprintf(Tail(fields))

\* the text that is hashed, and the auth value sent on the wire, of the value
\* of innerGetAuthValueOf: each digest computed and written in hexadecimal
authVal(value) ==
  LET h == value[4][2]
      bodyHash == sha1Sum(BytesOf(h[6][2]))
      hText == Sprintf(<< h[1], h[2], h[3], h[4], h[5], Hex(bodyHash) >>)
      hHash == sha1Sum(BytesOf(hText))
  IN  Sprintf(<< value[1], value[2], value[3], Hex(hHash) >>)

\* what rand.Read(bytes) gave: the count, the error, the buffer
RandByteVals == { 0, 61, 62, 255 }
RandBuf(base, pos, val) == [i \in 1..saltLen |-> IF i = pos THEN val ELSE base]
RandBufs ==
  { RandBuf(b, p, v) : b \in { 0, 255 }, p \in { 1, saltLen }, v \in RandByteVals }
RandReads ==
  { [n |-> saltLen, err |-> FALSE, bytes |-> buf] : buf \in RandBufs }
  \cup { [n |-> 0, err |-> TRUE, bytes |-> RandBuf(0, 1, 0)],
         [n |-> saltLen - 1, err |-> FALSE, bytes |-> RandBuf(0, 1, 0)] }

\* genSalt: the loop ranges over the indices 0..saltLen-1 of the buffer
genSalt(rd) ==
  IF rd.err THEN [ok |-> FALSE, salt |-> << >>]
  ELSE IF rd.n # saltLen THEN [ok |-> FALSE, salt |-> << >>]
  ELSE [ok |-> TRUE,
        salt |-> [b \in 1..Len(rd.bytes) |->
                    saltChars[((b - 1) % Len(saltChars)) + 1]]]

\* ----------------------------------------------------------------- inputs
\* generic records a caller passes; recBad is a raw record of a type the
\* encoder has no case for
recA == [kind |-> "Address", Name |-> Apex, IP |-> ip4, TTL |-> 60 * TicksPerSecond]
\* a second address of the same name
recA2 ==
  [kind |-> "Address", Name |-> Apex,
   IP |-> [is4 |-> TRUE, text |-> << "5",".","6",".","7",".","8" >>],
   TTL |-> 60 * TicksPerSecond]
recTXT == [kind |-> "TXT", Name |-> << "w" >>, Text |-> << "h","i" >>,
           TTL |-> 300 * TicksPerSecond]
recBad == [kind |-> "RR", Type |-> tCAA, Name |-> Apex, Data |-> << "0" >>,
           TTL |-> 300 * TicksPerSecond]
SampleRecords == { recA, recTXT, recBad }

RECURSIVE SeqsUpTo(_, _)
SeqsUpTo(S, n) ==
  IF n = 0 THEN { << >> }
  ELSE SeqsUpTo(S, n - 1)
       \cup { Append(q, x) : q \in { r \in SeqsUpTo(S, n - 1) : Len(r) = n - 1 }, x \in S }

zoneGood == << "e",".","c" >>
zoneDots == << "e",".","c",".","." >>
zoneCtl == << "e","\n" >>
CtlChars == { "\n", "\r", "\t" }

\* wire records a listRRs response carries
wireA == [Name |-> << >>, Type |-> tA, Data |-> ip4.text, TTL |-> 60, Aux |-> 0]
wireMX == [Name |-> << "m" >>, Type |-> tMX, Data |-> << "x",".","c" >>,
           TTL |-> 300, Aux |-> 10]
wireBadA == [Name |-> << >>, Type |-> tA, Data |-> << "x" >>, TTL |-> 300, Aux |-> 0]
wireTXT == [Name |-> << "t" >>, Type |-> tTXT, Data |-> << "h","i" >>, TTL |-> 60, Aux |-> 0]
wireCAA == [Name |-> << >>, Type |-> tCAA, Data |-> << "0" >>, TTL |-> 60, Aux |-> 0]
SampleWire == { wireA, wireMX, wireBadA }
WireRecords == SampleWire \cup { wireTXT, wireCAA }

\* a response body: the text as the server wrote it
EmptyText == [kind |-> "empty", recs |-> << >>]
GarbageText == [kind |-> "garbage", recs |-> << >>]
JsonArray(ws) == [kind |-> "array", recs |-> ws]
ListTexts == { JsonArray(ws) : ws \in SeqsUpTo(SampleWire, MaxList) } \cup { GarbageText }

\* ------------------------------------------------------------------ state
VARIABLES
  client,             \* Provider.client: 0 is nil, n > 0 the n-th http.Client built
  clientMtx,          \* Provider.clientMtx: 0 is unlocked, g the goroutine holding it
  built,              \* how many http.Client values were constructed
  procs,              \* the goroutines that call into the Provider
  pc,                 \* where each goroutine is
  call,               \* the public operation a goroutine runs and its arguments
  idx,                \* processRecords: how many records the loop is past
  successfulRecords,  \* processRecords: the accumulated list
  req,                \* makeRequest: the request being built or in flight
  mr,                 \* what makeRequest returned
  ret,                \* what the public operation returned
  ctxDone,            \* the caller's context is cancelled
  cancelAt,           \* the record whose request was in flight at the cancel, or 0
  seen,               \* the goroutine has observed client to be non-nil
  sent,               \* per goroutine, the requests handed to the wire, in order
  applied,            \* per goroutine, the requests the remote carried out
  outcome,            \* per goroutine, how each record the loop took up ended
  saltIn,             \* genSalt under test: what rand.Read gave each call
  saltOut,            \* genSalt under test: what each call returned
  probe               \* a pure function under test: its input and its result

vars == << client, clientMtx, built, procs, pc, call, idx, successfulRecords,
           req, mr, ret, ctxDone, cancelAt, seen, sent, applied, outcome, saltIn,
           saltOut, probe >>

Procs == 1..NumProcs
SaltCalls == { 1, 2 }

NoCall == [op |-> "", verb |-> << >>, zone |-> << >>, records |-> << >>]
\* error values: nil, and the error p.client.Do returned
NoError == [from |-> "none"]
DoError(why) == [from |-> "Do", why |-> why]
NoReq == [method |-> "", url |-> << >>, body |-> NoBody, headers |-> << >>,
          rec |-> 0, via |-> 0, doErr |-> NoError]
NoResp == [status |-> 0, text |-> EmptyText, drained |-> FALSE]
NoResult == [err |-> "none", resp |-> NoResp, msg |-> NoError]
NoReturn == [list |-> << >>, err |-> "none"]
NoSalt == [ok |-> FALSE, salt |-> << >>]
NoRead == [n |-> 0, err |-> FALSE, bytes |-> << >>]
NoProbe == [fn |-> "none", in |-> << >>, out |-> << >>]

\* the inputs of a call: one goroutine runs whole batches, several
\* goroutines run short ones
Zones == IF Cardinality(procs) = 1 THEN { zoneGood, zoneDots, zoneCtl } ELSE { zoneGood }
RecordLists ==
  IF Cardinality(procs) = 1
  THEN SeqsUpTo(SampleRecords, MaxRecords) \cup { << recA, recA2 >>, << recTXT, recA2 >> }
  ELSE { << recA >> }

InitProvider ==
  /\ client = 0
  /\ clientMtx = 0
  /\ built = 0
  /\ pc = [g \in Procs |-> "idle"]
  /\ call = [g \in Procs |-> NoCall]
  /\ idx = [g \in Procs |-> 0]
  /\ successfulRecords = [g \in Procs |-> << >>]
  /\ req = [g \in Procs |-> NoReq]
  /\ mr = [g \in Procs |-> NoResult]
  /\ ret = [g \in Procs |-> NoReturn]
  /\ ctxDone = [g \in Procs |-> FALSE]
  /\ cancelAt = [g \in Procs |-> 0]
  /\ seen = [g \in Procs |-> FALSE]
  /\ sent = [g \in Procs |-> << >>]
  /\ applied = [g \in Procs |-> {}]
  /\ outcome = [g \in Procs |-> << >>]
  /\ probe = NoProbe
  /\ saltIn = [k \in SaltCalls |-> NoRead]
  /\ saltOut = [k \in SaltCalls |-> NoSalt]

\* one caller
Init == procs = { 1 } /\ InitProvider

\* NumProcs concurrent callers
InitConc == procs = Procs /\ InitProvider

\* -------------------------------------------------------- public operations
Enter(g, op, verb, zone, records) ==
  /\ g \in procs
  /\ pc[g] = "idle"
  /\ call' = [call EXCEPT ![g] = [op |-> op, verb |-> verb, zone |-> zone,
                                  records |-> records]]
  /\ UNCHANGED << client, clientMtx, built, procs, idx, successfulRecords, mr, ret,
                  ctxDone, cancelAt, seen, sent, applied, outcome, saltIn, saltOut, probe >>

\* AppendRecords, SetRecords and DeleteRecords hand their verb to processRecords
EnterProcessRecords(g, op, verb) ==
  /\ g \in procs
  /\ pc[g] = "idle"
  /\ \E zone \in Zones, records \in RecordLists : Enter(g, op, verb, zone, records)
  /\ pc' = [pc EXCEPT ![g] = "loop"]
  /\ UNCHANGED req

AppendRecords(g) == EnterProcessRecords(g, "AppendRecords", addRR)

SetRecords(g) == EnterProcessRecords(g, "SetRecords", replaceRR)

DeleteRecords(g) == EnterProcessRecords(g, "DeleteRecords", removeRR)

\* GetRecords calls makeRequest with a nil body
GetRecords(g) ==
  /\ g \in procs
  /\ pc[g] = "idle"
  /\ \E zone \in Zones :
       /\ Enter(g, "GetRecords", listRRs, zone, << >>)
       /\ req' = [req EXCEPT ![g] = [NoReq EXCEPT !.method = "POST",
                                                  !.url = uriForZone(zone, listRRs)]]
  /\ pc' = [pc EXCEPT ![g] = "ensure"]

\* --------------------------------------------------------- processRecords
\* what the loop does with the result of encoding a record
afterEncodeMissingCheck(ok) == "request"
afterEncode(ok) == IF ~ok THEN "return" ELSE "request"

\* the head of the loop: the end of the list, or the encoding of one record
ProcessRecordsLoop(g) ==
  /\ pc[g] = "loop"
  /\ IF idx[g] >= Len(call[g].records)
     THEN /\ ret' = [ret EXCEPT ![g] = [list |-> successfulRecords[g], err |-> "none"]]
          /\ pc' = [pc EXCEPT ![g] = "done"]
          /\ UNCHANGED << req, outcome >>
     ELSE LET params == toNfsnRecordParameters(call[g].records[idx[g] + 1])
          IN  IF afterEncode(params.ok) = "return"
              THEN /\ ret' = [ret EXCEPT ![g] =
                                [list |-> successfulRecords[g], err |-> "encode"]]
                   /\ pc' = [pc EXCEPT ![g] = "done"]
                   /\ outcome' = [outcome EXCEPT ![g] = Append(@, "encode")]
                   /\ UNCHANGED req
              ELSE /\ req' = [req EXCEPT ![g] =
                                [NoReq EXCEPT !.method = "POST",
                                              !.url = uriForZone(call[g].zone, call[g].verb),
                                              !.body = BodyOf(Encode(params.params)),
                                              !.rec = idx[g] + 1]]
                   /\ pc' = [pc EXCEPT ![g] = "ensure"]
                   /\ UNCHANGED << ret, outcome >>
  /\ UNCHANGED << client, clientMtx, built, procs, call, idx, successfulRecords, mr,
                  ctxDone, cancelAt, seen, sent, applied, saltIn, saltOut, probe >>

\* what the loop does with the outcome of the request for `rec`: the list
\* it carries on with, and whether it returns, goes on or asks again
afterRequestSkipsFailure(list, rec, err) ==
  IF err # "none" THEN [list |-> list, then |-> "next"]
  ELSE [list |-> Append(list, rec), then |-> "next"]
afterRequestAppendsFirst(list, rec, err) ==
  IF err # "none" THEN [list |-> Append(list, rec), then |-> "return"]
  ELSE [list |-> Append(list, rec), then |-> "next"]
afterRequestRetriesOnce(list, rec, err) ==
  IF err # "none" /\ Len(list) = 0 THEN [list |-> list, then |-> "again"]
  ELSE IF err # "none" THEN [list |-> list, then |-> "return"]
  ELSE [list |-> Append(list, rec), then |-> "next"]
afterRequest(list, rec, err) ==
  IF err # "none" THEN [list |-> list, then |-> "return"]
  ELSE [list |-> Append(list, rec), then |-> "next"]

ProcessRecordsResult(g) ==
  /\ pc[g] = "returned"
  /\ call[g].verb # listRRs
  /\ LET a == afterRequest(successfulRecords[g], call[g].records[idx[g] + 1], mr[g].err)
     IN  /\ successfulRecords' = [successfulRecords EXCEPT ![g] = a.list]
         /\ IF a.then = "return"
            THEN /\ ret' = [ret EXCEPT ![g] = [list |-> a.list, err |-> mr[g].err]]
                 /\ pc' = [pc EXCEPT ![g] = "done"]
                 /\ UNCHANGED idx
            ELSE /\ idx' = [idx EXCEPT ![g] = IF a.then = "next" THEN @ + 1 ELSE @]
                 /\ pc' = [pc EXCEPT ![g] = "loop"]
                 /\ UNCHANGED ret
  /\ outcome' = [outcome EXCEPT ![g] = Append(@, mr[g].err)]
  /\ mr' = [mr EXCEPT ![g] = NoResult]
  /\ req' = [req EXCEPT ![g] = NoReq]
  /\ UNCHANGED << client, clientMtx, built, procs, call, ctxDone, cancelAt, seen,
                  sent, applied, saltIn, saltOut, probe >>

\* ------------------------------------------------------------ ensureClient
\* the unlocked read of p.client races with the construction: until the
\* goroutine has seen the client (or has held the mutex) the read may still
\* give nil
EnsureClientCheck(g) ==
  /\ pc[g] = "ensure"
  /\ \E c \in (IF seen[g] THEN { client } ELSE { 0, client }) :
       /\ pc' = [pc EXCEPT ![g] = IF c = 0 THEN "lock" ELSE "build"]
       /\ seen' = [seen EXCEPT ![g] = (c # 0)]
  /\ UNCHANGED << client, clientMtx, built, procs, call, idx, successfulRecords, req,
                  mr, ret, ctxDone, cancelAt, sent, applied, outcome, saltIn, saltOut,
                  probe >>

EnsureClientLock(g) ==
  /\ pc[g] = "lock"
  /\ clientMtx = 0
  /\ clientMtx' = g
  /\ pc' = [pc EXCEPT ![g] = "locked"]
  /\ UNCHANGED << client, built, procs, call, idx, successfulRecords, req, mr, ret,
                  ctxDone, cancelAt, seen, sent, applied, outcome, saltIn, saltOut, probe >>

\* the check under the mutex
mustConstructUnchecked(c) == TRUE
mustConstruct(c) == c = 0

EnsureClientConstruct(g) ==
  /\ pc[g] = "locked"
  /\ IF mustConstruct(client)
     THEN /\ client' = built + 1
          /\ built' = built + 1
     ELSE UNCHANGED << client, built >>
  /\ seen' = [seen EXCEPT ![g] = TRUE]
  /\ pc' = [pc EXCEPT ![g] = "unlock"]
  /\ UNCHANGED << clientMtx, procs, call, idx, successfulRecords, req, mr, ret,
                  ctxDone, cancelAt, sent, applied, outcome, saltIn, saltOut, probe >>

EnsureClientReturnsLocked(g) ==
  /\ pc[g] = "unlock"
  /\ pc' = [pc EXCEPT ![g] = "build"]
  /\ UNCHANGED << client, clientMtx, built, procs, call, idx, successfulRecords, req,
                  mr, ret, ctxDone, cancelAt, seen, sent, applied, outcome, saltIn,
                  saltOut, probe >>
\* the deferred Unlock, as ensureClient returns
EnsureClientUnlock(g) ==
  /\ pc[g] = "unlock"
  /\ clientMtx' = 0
  /\ pc' = [pc EXCEPT ![g] = "build"]
  /\ UNCHANGED << client, built, procs, call, idx, successfulRecords, req, mr, ret,
                  ctxDone, cancelAt, seen, sent, applied, outcome, saltIn, saltOut, probe >>

\* ------------------------------------------------------------- makeRequest
HasCtl(url) == \E i \in 1..Len(url) : url[i] \in CtlChars
PathOf(url) == SubSeq(url, Len(apiBase) + 1, Len(url))
ContentType == << "Content-Type", "application/x-www-form-urlencoded" >>
ReadingsOfNow == IF Cardinality(procs) = 1 THEN Times ELSE { 1012121212 }
ReadsOfRand ==
  IF Cardinality(procs) = 1 THEN RandReads
  ELSE { [n |-> saltLen, err |-> FALSE, bytes |-> RandBuf(0, 1, 0)] }

\* the headers of the new request: Content-Type when the body argument is
\* not nil
contentTypeAlways(body) == << ContentType >>
contentTypeFor(body) == IF body.present THEN << ContentType >> ELSE << >>

\* http.NewRequestWithContext, the Content-Type header, getAuthValue and the
\* authentication header
MakeRequestBuild(g) ==
  /\ pc[g] = "build"
  /\ IF HasCtl(req[g].url)
     THEN /\ mr' = [mr EXCEPT ![g] = [NoResult EXCEPT !.err = "newrequest"]]
          /\ pc' = [pc EXCEPT ![g] = "returned"]
          /\ UNCHANGED req
     ELSE \E rd \in ReadsOfRand, now \in ReadingsOfNow :
            IF ~genSalt(rd).ok
            THEN /\ mr' = [mr EXCEPT ![g] = [NoResult EXCEPT !.err = "salt"]]
                 /\ pc' = [pc EXCEPT ![g] = "returned"]
                 /\ UNCHANGED req
            ELSE LET auth == innerGetAuthValue(PathOf(req[g].url), req[g].body, now,
                                               genSalt(rd).salt)
                 IN  /\ req' = [req EXCEPT
                                  ![g].headers =
                                    contentTypeFor(req[g].body)
                                    \o << << authHeader, auth.value >> >>,
                                  ![g].body = auth.body]
                     /\ pc' = [pc EXCEPT ![g] = "do"]
                     /\ UNCHANGED mr
  /\ UNCHANGED << client, clientMtx, built, procs, call, idx, successfulRecords, ret,
                  ctxDone, cancelAt, seen, sent, applied, outcome, saltIn, saltOut, probe >>

SaltOf(r) == r.headers[Len(r.headers)][2][3]

\* what makeRequest returns when p.client.Do returned an error
afterDoWraps(err) ==
  [NoResult EXCEPT !.err = err.why, !.msg = [from |-> "makeRequest", wraps |-> err]]
afterDo(err) == [NoResult EXCEPT !.err = err.why, !.msg = err]

\* p.client.Do(req): a nil client panics, a cancelled context fails the
\* request before anything is sent, otherwise the request goes out
ClientDo(g) ==
  /\ pc[g] = "do"
  /\ IF client = 0
     THEN /\ pc' = [pc EXCEPT ![g] = "panic"]
          /\ UNCHANGED << req, mr, sent >>
     ELSE IF ctxDone[g]
     THEN /\ req' = [req EXCEPT ![g].doErr = DoError("canceled")]
          /\ mr' = [mr EXCEPT ![g] = afterDo(DoError("canceled"))]
          /\ pc' = [pc EXCEPT ![g] = "returned"]
          /\ UNCHANGED sent
     ELSE /\ req' = [req EXCEPT ![g].via = client]
          /\ sent' = [sent EXCEPT ![g] =
                        Append(@, [rec |-> req[g].rec, via |-> client,
                                   salt |-> SaltOf(req[g]), method |-> req[g].method,
                                   url |-> req[g].url])]
          /\ pc' = [pc EXCEPT ![g] = "inflight"]
          /\ UNCHANGED mr
  /\ UNCHANGED << client, clientMtx, built, procs, call, idx, successfulRecords, ret,
                  ctxDone, cancelAt, seen, applied, outcome, saltIn, saltOut, probe >>

\* ------------------------------------------------- the remote and the wire
Statuses == IF Cardinality(procs) = 1 THEN { 199, 200, 299, 300, 404 } ELSE { 200 }
IsSuccess(status) == status >= 200 /\ status < 300
TextsFor(verb, status) ==
  IF ~IsSuccess(status) THEN { GarbageText }
  ELSE IF verb # listRRs THEN { EmptyText }
  ELSE IF Cardinality(procs) = 1 THEN ListTexts
  ELSE { JsonArray(<< wireA >>) }

\* the remote answers: a mutation it answers with success it has carried out
RemoteResponds(g) ==
  /\ pc[g] = "inflight"
  /\ ~ctxDone[g]
  /\ \E status \in Statuses :
       \E text \in TextsFor(call[g].verb, status) :
         /\ mr' = [mr EXCEPT ![g] =
                     [NoResult EXCEPT
                        !.resp = [status |-> status, text |-> text, drained |-> FALSE]]]
         /\ applied' = [applied EXCEPT ![g] =
                          IF IsSuccess(status) /\ call[g].verb # listRRs
                          THEN @ \cup { req[g].rec } ELSE @]
  /\ pc' = [pc EXCEPT ![g] = "classify"]
  /\ UNCHANGED << client, clientMtx, built, procs, call, idx, successfulRecords, req,
                  ret, ctxDone, cancelAt, seen, sent, outcome, saltIn, saltOut, probe >>

\* the request fails on the wire (`why`); the remote may have carried it out
DoFails(g, why) ==
  /\ pc[g] = "inflight"
  /\ \E landed \in BOOLEAN :
       applied' = [applied EXCEPT ![g] =
                     IF landed /\ call[g].verb # listRRs THEN @ \cup { req[g].rec } ELSE @]
  /\ req' = [req EXCEPT ![g].doErr = DoError(why)]
  /\ mr' = [mr EXCEPT ![g] = afterDo(DoError(why))]
  /\ pc' = [pc EXCEPT ![g] = "returned"]
  /\ UNCHANGED << client, clientMtx, built, procs, call, idx, successfulRecords, ret,
                  ctxDone, cancelAt, seen, sent, outcome, saltIn, saltOut, probe >>

TransportFails(g) == ~ctxDone[g] /\ DoFails(g, "transport")

\* a request in flight when the context is cancelled comes back as an error
CancelledInFlight(g) == ctxDone[g] /\ DoFails(g, "canceled")

\* the caller cancels the context
Cancel(g) ==
  /\ g \in procs
  /\ pc[g] \notin { "done", "panic" }
  /\ ~ctxDone[g]
  /\ ctxDone' = [ctxDone EXCEPT ![g] = TRUE]
  /\ cancelAt' = [cancelAt EXCEPT ![g] = IF pc[g] = "inflight" THEN req[g].rec ELSE 0]
  /\ UNCHANGED << client, clientMtx, built, procs, pc, call, idx, successfulRecords,
                  req, mr, ret, seen, sent, applied, outcome, saltIn, saltOut, probe >>

\* the end of makeRequest: the body is read to its end, the status decides
classifyAcceptsAll(status) == "none"
classifyTakes300(status) == IF status < 200 \/ status > 300 THEN "status" ELSE "none"
classify(status) == IF status < 200 \/ status >= 300 THEN "status" ELSE "none"

\* the error for a status outside the success range: the status line and the
\* text of the body
statusError(resp) == [from |-> "status", status |-> resp.status, body |-> resp.text]

MakeRequestClassify(g) ==
  /\ pc[g] = "classify"
  /\ mr' = [mr EXCEPT ![g] =
              IF classify(mr[g].resp.status) # "none"
              THEN [NoResult EXCEPT !.err = classify(mr[g].resp.status),
                                    !.msg = statusError(mr[g].resp)]
              ELSE [NoResult EXCEPT !.resp = [mr[g].resp EXCEPT !.drained = TRUE]]]
  /\ pc' = [pc EXCEPT ![g] = "returned"]
  /\ UNCHANGED << client, clientMtx, built, procs, call, idx, successfulRecords, req,
                  ret, ctxDone, cancelAt, seen, sent, applied, outcome, saltIn,
                  saltOut, probe >>

\* -------------------------------------------------------------- GetRecords
\* io.ReadAll(resp.Body): what is left of the body
ReadAll(resp) == IF resp.drained THEN EmptyText ELSE resp.text

\* json.Unmarshal into []nfsnRecord
Unmarshal(text) ==
  IF text.kind = "array" THEN [ok |-> TRUE, recs |-> text.recs]
  ELSE [ok |-> FALSE, recs |-> << >>]

\* the decode loop: every wire record, or the first error and no records
RECURSIVE decodeFromKeepsPrefix(_, _)
decodeFromKeepsPrefix(nRecords, records) ==
  IF nRecords = << >> THEN [list |-> records, err |-> "none"]
  ELSE IF ~record(Head(nRecords)).ok THEN [list |-> records, err |-> "decode"]
  ELSE decodeFromKeepsPrefix(Tail(nRecords), Append(records, record(Head(nRecords)).rec))
RECURSIVE decodeFrom(_, _)
decodeFrom(nRecords, records) ==
  IF nRecords = << >> THEN [list |-> records, err |-> "none"]
  ELSE IF ~record(Head(nRecords)).ok THEN [list |-> << >>, err |-> "decode"]
  ELSE decodeFrom(Tail(nRecords), Append(records, record(Head(nRecords)).rec))

\* GetRecords after makeRequest: read the body, unmarshal, decode
getRecordsReturn(result) ==
  IF result.err # "none" THEN [list |-> << >>, err |-> result.err]
  ELSE IF ~Unmarshal(ReadAll(result.resp)).ok THEN [list |-> << >>, err |-> "json"]
  ELSE decodeFrom(Unmarshal(ReadAll(result.resp)).recs, << >>)

GetRecordsResult(g) ==
  /\ pc[g] = "returned"
  /\ call[g].verb = listRRs
  /\ ret' = [ret EXCEPT ![g] = getRecordsReturn(mr[g])]
  /\ pc' = [pc EXCEPT ![g] = "done"]
  /\ UNCHANGED << client, clientMtx, built, procs, call, idx, successfulRecords, req,
                  mr, ctxDone, cancelAt, seen, sent, applied, outcome, saltIn, saltOut,
                  probe >>

\* ----------------------------------------------------------- specifications
Work(g) ==
  \/ AppendRecords(g)
  \/ SetRecords(g)
  \/ DeleteRecords(g)
  \/ GetRecords(g)
  \/ ProcessRecordsLoop(g)
  \/ ProcessRecordsResult(g)
  \/ EnsureClientCheck(g)
  \/ EnsureClientLock(g)
  \/ EnsureClientConstruct(g)
  \/ EnsureClientUnlock(g)
  \/ MakeRequestBuild(g)
  \/ ClientDo(g)
  \/ RemoteResponds(g)
  \/ TransportFails(g)
  \/ MakeRequestClassify(g)
  \/ GetRecordsResult(g)

Next == \E g \in procs : Work(g) \/ CancelledInFlight(g) \/ Cancel(g)

\* one caller, whole batches, a context that may be cancelled
Spec == Init /\ [][Next]_vars

NextConc == \E g \in procs : Work(g)

\* concurrent callers, one record each, contexts that stay live
SpecConc == InitConc /\ [][NextConc]_vars

\* the steps of a call up to the sending of its request
Send(g) ==
  \/ ProcessRecordsLoop(g)
  \/ EnsureClientCheck(g)
  \/ EnsureClientLock(g)
  \/ EnsureClientConstruct(g)
  \/ EnsureClientUnlock(g)
  \/ MakeRequestBuild(g)
  \/ ClientDo(g)

NextLive ==
  \E g \in procs :
    AppendRecords(g) \/ SetRecords(g) \/ DeleteRecords(g) \/ GetRecords(g) \/ Send(g)

\* concurrent callers, each followed until its request is on the wire, where
\* it may stay for ever; the scheduler lets no runnable goroutine wait for ever
SpecLive == InitConc /\ [][NextLive]_vars /\ \A g \in Procs : WF_vars(Send(g))

\* genSalt on its own: two calls, each on what rand.Read gave it
InitSalt == procs = {} /\ InitProvider

GenSaltCall(k) ==
  /\ saltIn[k] = NoRead
  /\ \E rd \in RandReads :
       /\ saltIn' = [saltIn EXCEPT ![k] = rd]
       /\ saltOut' = [saltOut EXCEPT ![k] = genSalt(rd)]
  /\ UNCHANGED << client, clientMtx, built, procs, pc, call, idx, successfulRecords,
                  req, mr, ret, ctxDone, cancelAt, seen, sent, applied, outcome, probe >>

NextSalt == \E k \in SaltCalls : GenSaltCall(k)

SpecSalt == InitSalt /\ [][NextSalt]_vars

\* the signer on its own: a request signed, the same request signed once
\* more, and the auth value written out as bytes
getInfo ==
  << "/","s","i","t","e","/","e","x","a","m","p","l","e","/","g","e","t","I","n","f","o" >>
testSalt == << "d","k","w","o","2","8","S","i","l","e","4","j","d","X","k","w" >>
SignInputs ==
  [p : { ProviderCfg, TestProvider },
   path : { pathForZone(zoneGood, listRRs), pathForZone(zoneDots, addRR), getInfo },
   body : { NoBody, BodyOf(<< >>), BodyOf(<< "t","t","l","=","1","8","0" >>) },
   timestamp : Times,
   salt : { genSalt([n |-> saltLen, err |-> FALSE, bytes |-> RandBuf(0, 1, 0)]).salt,
            testSalt }]

InitSign == procs = {} /\ InitProvider

SignRequest ==
  /\ probe = NoProbe
  /\ \E in \in SignInputs :
       probe' = [fn |-> "sign", in |-> in,
                 out |-> innerGetAuthValueOf(in.p, in.path, in.body, in.timestamp,
                                             in.salt)]
  /\ UNCHANGED << client, clientMtx, built, procs, pc, call, idx, successfulRecords,
                  req, mr, ret, ctxDone, cancelAt, seen, sent, applied, outcome,
                  saltIn, saltOut >>

\* the request the first call left is signed again
SignAgain ==
  /\ probe.fn = "sign"
  /\ probe' = [fn |-> "sign again", in |-> probe.in, first |-> probe.out,
               out |-> innerGetAuthValueOf(probe.in.p, probe.in.path, probe.out.body,
                                           probe.in.timestamp, probe.in.salt)]
  /\ UNCHANGED << client, clientMtx, built, procs, pc, call, idx, successfulRecords,
                  req, mr, ret, ctxDone, cancelAt, seen, sent, applied, outcome,
                  saltIn, saltOut >>

WriteAuthVal ==
  /\ probe.fn = "sign"
  /\ probe' = [fn |-> "authVal", in |-> probe.in, out |-> authVal(probe.out.value)]
  /\ UNCHANGED << client, clientMtx, built, procs, pc, call, idx, successfulRecords,
                  req, mr, ret, ctxDone, cancelAt, seen, sent, applied, outcome,
                  saltIn, saltOut >>

NextSign == SignRequest \/ SignAgain \/ WriteAuthVal

SpecSign == InitSign /\ [][NextSign]_vars

\* one caller, or else the decode loop of GetRecords on its own, on any
\* array of wire records
DecodeRecords ==
  /\ probe = NoProbe
  /\ \A g \in procs : pc[g] = "idle"
  /\ \E nRecords \in SeqsUpTo(WireRecords, MaxList + 1) :
       probe' = [fn |-> "decode", in |-> nRecords, out |-> decodeFrom(nRecords, << >>)]
  /\ UNCHANGED << client, clientMtx, built, procs, pc, call, idx, successfulRecords,
                  req, mr, ret, ctxDone, cancelAt, seen, sent, applied, outcome,
                  saltIn, saltOut >>

NextList == (probe = NoProbe /\ Next) \/ DecodeRecords

SpecList == Init /\ [][NextList]_vars

\* ------------------------------------------------------- the codec alone
\* generic records of every variant: the names, the apex among them, and
\* TTLs in ticks below, at and above the floor, whole seconds and not
GenericNames == { Apex, << >>, << "w" >>, << "a",".","b" >> }
GenericTTLs ==
  { -1, 0, 60 * TicksPerSecond, 180 * TicksPerSecond - 1, 180 * TicksPerSecond,
    180 * TicksPerSecond + 1, 300 * TicksPerSecond }
targetXC == << "x",".","c" >>
sip == << "s","i","p" >>
tcp == << "t","c","p" >>
xmpp == << "x","m","p","p" >>
testCom == << "t","e","s","t",".","c","o","m" >>
GenericRecords ==
  { [kind |-> "Address", Name |-> n, IP |-> ip, TTL |-> t] :
      n \in GenericNames, ip \in { ip4, ip6, ip4in6 }, t \in GenericTTLs }
  \cup { [kind |-> k, Name |-> n, Target |-> targetXC, TTL |-> t] :
           k \in { "CNAME", "NS" }, n \in GenericNames, t \in GenericTTLs }
  \cup { [kind |-> "MX", Name |-> n, Target |-> targetXC, TTL |-> t, Preference |-> p] :
           n \in GenericNames, t \in GenericTTLs, p \in { 0, 10, 65535 } }
  \cup { [kind |-> "TXT", Name |-> n, Text |-> x, TTL |-> t] :
           n \in GenericNames, t \in GenericTTLs,
           x \in { << "h","i" >>, << "a"," ","b" >> } }
  \cup { [kind |-> "SRV", Service |-> sip, Transport |-> tcp, Name |-> n, TTL |-> t,
          Priority |-> pr, Weight |-> w, Port |-> po, Target |-> targetXC] :
           n \in GenericNames, t \in GenericTTLs, pr \in { 0, 10 },
           w \in { 0, 65535 }, po \in { 443, 65535 } }
  \cup { [kind |-> "SRV", Service |-> xmpp, Transport |-> tcp, Name |-> n,
          TTL |-> 300 * TicksPerSecond, Priority |-> 10, Weight |-> 20, Port |-> 30,
          Target |-> testCom] : n \in { Apex, << "t","e","s","t" >> } }
  \cup { [kind |-> "RR", Type |-> ty, Name |-> n, Data |-> targetXC, TTL |-> t] :
           ty \in { tPTR, tCAA, tLOC }, n \in GenericNames, t \in GenericTTLs }

\* wire records of every type the remote may list, well formed and not
WireNames == { << >>, << "w" >>, Apex }
WireTTLs == { 0, 60, 179, 180, 300 }
WireAux == { 0, 10, 65535, 65546 }
SrvWireNames ==
  { << >>,
    << "_","j","a","b","b","e","r" >>,
    << "_","s","i","p",".","_","t","c","p" >>,
    << "_","s","i","p",".","_","t","c","p","." >>,
    << "_","s","i","p",".","_","t","c","p",".","w" >>,
    << "_","s","i","p",".","_","t","c","p",".","a",".","b" >>,
    << "_","s","i","p",".","_","t","c","p",".","@" >>,
    << "s","i","p",".","t","c","p",".","w" >> }
SrvWireData ==
  { << "0"," ","4","4","3"," ","x",".","c" >>,
    << "0"," "," ","4","4","3","\t","x",".","c" >>,
    << "0","1","0"," ","4","4","3"," ","x",".","c" >>,
    << "6","5","5","3","5"," ","6","5","5","3","5"," ","x",".","c" >>,
    << "6","5","5","3","6"," ","4","4","3"," ","x",".","c" >>,
    << "0"," ","-","1"," ","x",".","c" >>,
    << "0"," ","4","4","3" >>,
    << "x",".","c" >>,
    << "0"," ","4","4","3"," ","x",".","c"," ","y" >> }
WireInputs ==
  { [Name |-> n, Type |-> ty, Data |-> d, TTL |-> t, Aux |-> 0] :
      n \in WireNames, ty \in { tA, tAAAA },
      d \in { ip4.text, ip6.text, ip6Long, ip4in6.text, targetXC }, t \in WireTTLs }
  \cup { [Name |-> n, Type |-> ty, Data |-> targetXC, TTL |-> t, Aux |-> 0] :
           n \in WireNames, ty \in { tCNAME, tNS, tPTR, tTXT, tCAA, tLOC },
           t \in WireTTLs }
  \cup { [Name |-> n, Type |-> tMX, Data |-> targetXC, TTL |-> t, Aux |-> a] :
           n \in WireNames, t \in WireTTLs, a \in WireAux }
  \cup { [Name |-> n, Type |-> tSRV, Data |-> d, TTL |-> t, Aux |-> a] :
           n \in SrvWireNames, d \in SrvWireData, t \in { 60, 300 },
           a \in { 10, 65546 } }

\* the wire record the remote lists for a record it stored with these
\* parameters
wireOf(params) ==
  [Name |-> params.name, Type |-> params.type, Data |-> params.data,
   TTL |-> DecVal(params.ttl),
   Aux |-> IF "aux" \in DOMAIN params THEN DecVal(params.aux) ELSE 0]

\* toNfsnRecordParameters on a generic record
EncodeRecord ==
  /\ probe = NoProbe
  /\ \A g \in procs : pc[g] = "idle"
  /\ \E r \in GenericRecords :
       probe' = [fn |-> "encode", in |-> r, out |-> toNfsnRecordParameters(r)]
  /\ UNCHANGED << client, clientMtx, built, procs, pc, call, idx, successfulRecords,
                  req, mr, ret, ctxDone, cancelAt, seen, sent, applied, outcome,
                  saltIn, saltOut >>

\* nfsnRecord.record() on a wire record
DecodeWire ==
  /\ probe = NoProbe
  /\ \A g \in procs : pc[g] = "idle"
  /\ \E w \in WireInputs :
       probe' = [fn |-> "record", in |-> w, out |-> record(w)]
  /\ UNCHANGED << client, clientMtx, built, procs, pc, call, idx, successfulRecords,
                  req, mr, ret, ctxDone, cancelAt, seen, sent, applied, outcome,
                  saltIn, saltOut >>

\* the encoded record comes back in a listing and is decoded
ListBack ==
  /\ probe.fn = "encode"
  /\ probe.out.ok
  /\ probe' = [fn |-> "record of encode", in |-> probe.in,
               wire |-> wireOf(probe.out.params),
               out |-> record(wireOf(probe.out.params))]
  /\ UNCHANGED << client, clientMtx, built, procs, pc, call, idx, successfulRecords,
                  req, mr, ret, ctxDone, cancelAt, seen, sent, applied, outcome,
                  saltIn, saltOut >>

\* the decoded record is encoded for a mutation
SendBack ==
  /\ probe.fn = "record"
  /\ probe.out.ok
  /\ probe' = [fn |-> "encode of record", in |-> probe.in, rec |-> probe.out.rec,
               out |-> toNfsnRecordParameters(probe.out.rec)]
  /\ UNCHANGED << client, clientMtx, built, procs, pc, call, idx, successfulRecords,
                  req, mr, ret, ctxDone, cancelAt, seen, sent, applied, outcome,
                  saltIn, saltOut >>

NextCodec ==
  \/ probe = NoProbe /\ Next
  \/ EncodeRecord
  \/ DecodeWire
  \/ ListBack
  \/ SendBack

\* one caller, or else the codec on its own on any record
SpecCodec == Init /\ [][NextCodec]_vars

\* ------------------------------------------------------------------ claims
IsBatch(g) == g \in procs /\ pc[g] # "idle" /\ call[g].verb # listRRs
IsList(g) == g \in procs /\ pc[g] # "idle" /\ call[g].verb = listRRs
Records(g) == call[g].records
Prefix(g, k) == SubSeq(Records(g), 1, k)
Failed(g) == { i \in 1..Len(outcome[g]) : outcome[g][i] # "none" }
\* how many records precede the first one whose encoding or request failed
FirstFailure(g) ==
  IF Failed(g) = {} THEN Len(Records(g))
  ELSE (CHOOSE i \in Failed(g) : \A j \in Failed(g) : i <= j) - 1
SentRecs(g) == { sent[g][i].rec : i \in 1..Len(sent[g]) }

\* C1: a batch call returns exactly the records before the first one whose
\* encoding or request failed, in input order, with an error exactly when
\* there is such a record, and sends no request for any record after it.
C1_PrefixCommit ==
  \A g \in procs :
    IsBatch(g) =>
      /\ \A r \in SentRecs(g) : r <= FirstFailure(g) + 1
      /\ pc[g] = "done" =>
           /\ ret[g].list = Prefix(g, FirstFailure(g))
           /\ (ret[g].err # "none") <=> (FirstFailure(g) < Len(Records(g)))

C1_Witness ==
  /\ pc[1] = "done"
  /\ IsBatch(1)
  /\ Len(Records(1)) = 3
  /\ outcome[1] = << "none", "status" >>
  /\ ret[1] = [list |-> Prefix(1, 1), err |-> "status"]

\* C2: a record whose encoding fails, or whose request cannot be signed, gets
\* no request: the requests sent are those of the records returned, the
\* remote saw nothing else, and [A, B, C] with B unencodable gives ([A], error).
C2_FailBeforeSend ==
  \A g \in procs :
    IsBatch(g) =>
      /\ \A r \in SentRecs(g) : toNfsnRecordParameters(Records(g)[r]).ok
      /\ (pc[g] = "done" /\ ret[g].err \in { "encode", "salt" }) =>
           /\ Len(sent[g]) = Len(ret[g].list)
           /\ SentRecs(g) = 1..Len(ret[g].list)
           /\ applied[g] = 1..Len(ret[g].list)
           /\ ret[g].list = Prefix(g, Len(ret[g].list))
           /\ ret[g].err = "encode" =>
                ~toNfsnRecordParameters(Records(g)[Len(ret[g].list) + 1]).ok
      /\ (pc[g] = "done" /\ Records(g) = << recA, recBad, recTXT >>
            /\ ret[g].err = "encode") => ret[g].list = << recA >>

C2_Witness ==
  /\ pc[1] = "done"
  /\ IsBatch(1)
  /\ Records(1) = << recA, recBad, recTXT >>
  /\ ret[1] = [list |-> << recA >>, err |-> "encode"]
  /\ Len(sent[1]) = 1

\* C3 as stated: an empty list with an error means no record of the batch
\* was applied at the remote, a non-empty list with an error means some
\* were, the whole list without an error means all were.
C3_Original ==
  \A g \in procs :
    (IsBatch(g) /\ pc[g] = "done") =>
      /\ (ret[g].err # "none" /\ ret[g].list = << >>) => applied[g] = {}
      /\ (ret[g].err # "none" /\ ret[g].list # << >>) => applied[g] # {}
      /\ ret[g].err = "none" =>
           (ret[g].list = Records(g) /\ applied[g] = 1..Len(Records(g)))

\* C3, amended: the records returned were applied, and beyond them at most
\* the next one, whose request failed on the wire or was cancelled after it
\* was sent; so an empty list with an error means that nothing was
\* acknowledged, the first record alone possibly applied all the same.
C3_Amended ==
  \A g \in procs :
    (IsBatch(g) /\ pc[g] = "done") =>
      /\ 1..Len(ret[g].list) \subseteq applied[g]
      /\ applied[g] \subseteq 1..(Len(ret[g].list) + 1)
      /\ (Len(ret[g].list) + 1) \in applied[g] =>
           /\ ret[g].err \in { "transport", "canceled" }
           /\ (Len(ret[g].list) + 1) \in SentRecs(g)
      /\ ret[g].err = "none" =>
           (ret[g].list = Records(g) /\ applied[g] = 1..Len(Records(g)))

C3_Witness ==
  /\ pc[1] = "done"
  /\ IsBatch(1)
  /\ ret[1].list = << >>
  /\ ret[1].err = "transport"
  /\ applied[1] = { 1 }

\* C4: the requests of a batch call go out one at a time, in input order,
\* at most one for each record: a request is sent only when every earlier
\* one has ended, and a failed one is not sent again.
C4_SequentialNoRetry ==
  \A g \in procs :
    IsBatch(g) =>
      /\ Len(sent[g]) <= Len(Records(g))
      /\ Len(sent[g]) <= Len(outcome[g]) + 1
      /\ pc[g] = "inflight" => Len(sent[g]) = Len(outcome[g]) + 1
      /\ \A i, j \in 1..Len(sent[g]) : i < j => sent[g][i].rec < sent[g][j].rec

C4_Witness ==
  /\ pc[1] = "done"
  /\ IsBatch(1)
  /\ Len(sent[1]) = 3
  /\ outcome[1] = << "none", "none", "transport" >>

\* C5: when the context is cancelled while the request for record i is in
\* flight, that request fails, the call returns the records before i with an
\* error, and no request goes out for a record after i.
C5_CancelMidBatch ==
  \A g \in procs :
    (IsBatch(g) /\ cancelAt[g] > 0) =>
      /\ \A r \in SentRecs(g) : r <= cancelAt[g]
      /\ pc[g] \in { "loop", "done" } =>
           /\ Len(outcome[g]) = cancelAt[g]
           /\ outcome[g][cancelAt[g]] = "canceled"
      /\ pc[g] = "done" =>
           /\ ret[g].err = "canceled"
           /\ ret[g].list = Prefix(g, cancelAt[g] - 1)
           /\ 1..(cancelAt[g] - 1) \subseteq applied[g]

C5_Witness ==
  /\ pc[1] = "done"
  /\ IsBatch(1)
  /\ cancelAt[1] = 2
  /\ Len(Records(1)) = 3
  /\ applied[1] = { 1, 2 }
  /\ ret[1] = [list |-> Prefix(1, 1), err |-> "canceled"]

Decodable(ws) == \A i \in 1..Len(ws) : record(ws[i]).ok
Decoded(ws) == [i \in 1..Len(ws) |-> record(ws[i]).rec]

\* C6: when listRRs is answered with a success status and a JSON array of
\* decodable wire records, makeRequest hands over the response with its body
\* still to be read and GetRecords returns the decoded records, in order,
\* without an error.
C6_ListSucceeds ==
  \A g \in procs :
    (IsList(g) /\ pc[g] = "done" /\ mr[g].err = "none"
       /\ mr[g].resp.text.kind = "array" /\ Decodable(mr[g].resp.text.recs)) =>
      /\ ReadAll(mr[g].resp) = mr[g].resp.text
      /\ ret[g] = [list |-> Decoded(mr[g].resp.text.recs), err |-> "none"]

\* C7: GetRecords returns no record whenever it returns an error, and the
\* decode loop gives up every record it had decoded when one fails.
C7_AllOrNothing ==
  /\ \A g \in procs :
       (IsList(g) /\ pc[g] = "done" /\ ret[g].err # "none") => ret[g].list = << >>
  /\ probe.fn = "decode" =>
       /\ ~Decodable(probe.in) => probe.out = [list |-> << >>, err |-> "decode"]
       /\ Decodable(probe.in) => probe.out = [list |-> Decoded(probe.in), err |-> "none"]

C7_Witness ==
  /\ probe.fn = "decode"
  /\ probe.in = << wireA, wireMX, wireBadA >>
  /\ probe.out = [list |-> << >>, err |-> "decode"]

\* C8: two calls of genSalt that read different random bytes return
\* different salts.
C8_FreshSalt ==
  \A j, k \in SaltCalls :
    (saltOut[j].ok /\ saltOut[k].ok /\ saltIn[j].bytes # saltIn[k].bytes) =>
      saltOut[j].salt # saltOut[k].salt

\* C9: a salt has saltLen characters of the 62-character alphabet, the one at
\* each position selected by the random byte of that position.
C9_SaltByBytes ==
  /\ Cardinality({ saltChars[i] : i \in 1..Len(saltChars) }) = 62
  /\ \A k \in SaltCalls :
       saltOut[k].ok =>
         /\ Len(saltOut[k].salt) = saltLen
         /\ \A i \in 1..saltLen :
              saltOut[k].salt[i] = saltChars[(saltIn[k].bytes[i] % Len(saltChars)) + 1]

\* C10: however the calls interleave, one http.Client at most is constructed,
\* it is never replaced, and every request goes through it.
C10_ClientOnce ==
  /\ built <= 1
  /\ client = built
  /\ \A g \in procs :
       /\ pc[g] # "panic"
       /\ pc[g] \in { "build", "do", "inflight", "classify", "returned" } => client = 1
       /\ \A i \in 1..Len(sent[g]) : sent[g][i].via = 1

C10_Witness ==
  \E g, h \in procs :
    /\ g # h
    /\ pc[g] = "locked"
    /\ client = 1
    /\ Len(sent[h]) = 1

\* the mutex is held only between Lock and the deferred Unlock, and its
\* holder has no request in flight
MutexOnlyInEnsureClient ==
  \A g \in procs :
    /\ clientMtx = g => pc[g] \in { "locked", "unlock" }
    /\ pc[g] \in { "locked", "unlock" } => clientMtx = g
    /\ pc[g] = "inflight" => clientMtx # g
Acquires(g) == clientMtx # g /\ clientMtx' = g
EverySenderSends ==
  \A g \in Procs : (pc[g] = "ensure") ~> (pc[g] = "inflight")

\* C11 as stated: the mutex is held only inside ensureClient and never by a
\* call with a request in flight, no call acquires it once the client exists,
\* and every call comes to send its request.
C11_Original ==
  /\ []MutexOnlyInEnsureClient
  /\ [][\A g \in procs : Acquires(g) => client = 0]_vars
  /\ EverySenderSends

\* C11, amended: the mutex is held only inside ensureClient and never by a
\* call with a request in flight; a call acquires it only when its own
\* unlocked check found no client, which may be after another call has
\* constructed the client, and then it constructs nothing; every call comes
\* to send its request.
C11_Amended ==
  /\ []MutexOnlyInEnsureClient
  /\ [][\A g \in procs : Acquires(g) => (~seen[g] /\ pc[g] = "lock")]_vars
  /\ [][\A g \in procs : (clientMtx = g /\ client # 0) => client' = client]_vars
  /\ EverySenderSends

C11_Witness ==
  \E g, h \in procs :
    /\ g # h
    /\ pc[h] = "inflight"
    /\ client # 0
    /\ clientMtx = g
    /\ pc[g] = "locked"

Returns(g) == pc[g] # "returned" /\ pc'[g] = "returned"

\* C12: makeRequest returns the response, and no error, exactly when the
\* status is at least 200 and below 300; for any other status it returns no
\* response and an error that holds the status and the text of the body; an
\* error of p.client.Do it returns as it is, with no response.
C12_Classification ==
  [][\A g \in procs :
       /\ (pc[g] = "classify" /\ Returns(g)) =>
            IF mr[g].resp.status >= 200 /\ mr[g].resp.status < 300
            THEN /\ mr'[g].err = "none"
                 /\ mr'[g].msg = NoError
                 /\ mr'[g].resp.status = mr[g].resp.status
            ELSE /\ mr'[g].err # "none"
                 /\ mr'[g].msg.from = "status"
                 /\ mr'[g].msg.status = mr[g].resp.status
                 /\ mr'[g].msg.body = mr[g].resp.text
                 /\ mr'[g].resp = NoResp
       /\ (pc[g] \in { "do", "inflight" } /\ Returns(g)) =>
            /\ req'[g].doErr # NoError
            /\ mr'[g].msg = req'[g].doErr
            /\ mr'[g].err # "none"
            /\ mr'[g].resp = NoResp]_vars

C12_Witness ==
  /\ pc[1] = "returned"
  /\ mr[1].err = "status"
  /\ mr[1].msg = [from |-> "status", status |-> 300, body |-> GarbageText]
  /\ mr[1].resp = NoResp

\* the zone up to its last character that is no dot
Undotted(zone) ==
  SubSeq(zone, 1,
         CHOOSE k \in 0..Len(zone) :
           /\ k = 0 \/ zone[k] # "."
           /\ \A j \in (k + 1)..Len(zone) : zone[j] = ".")
VerbOf(op) ==
  CASE op = "GetRecords" -> << "l","i","s","t","R","R","s" >>
    [] op = "AppendRecords" -> << "a","d","d","R","R" >>
    [] op = "SetRecords" -> << "r","e","p","l","a","c","e","R","R" >>
    [] op = "DeleteRecords" -> << "r","e","m","o","v","e","R","R" >>

HeadersNamed(r, name) == { i \in 1..Len(r.headers) : r.headers[i][1] = name }
AuthOf(r) == r.headers[CHOOSE i \in HeadersNamed(r, "X-NFSN-Authentication") : TRUE][2]
\* the value is LOGIN;TIMESTAMP;SALT;HASH with the hash taken over the path
\* and the body of this very request
SignedFor(r, value) ==
  /\ Len(value) = 4
  /\ value[1] = Login
  /\ \E now \in Times : value[2] = Itoa(now)
  /\ Len(value[3]) = 16
  /\ value[4] = Sha1(<< Login, value[2], value[3], APIKey,
                        SubSeq(r.url, Len(apiBase) + 1, Len(r.url)), Sha1(r.body.bytes) >>)
AtClient(g) == g \in procs /\ pc[g] \in { "do", "inflight", "classify" }

\* C14: a request handed to the HTTP client has exactly one
\* X-NFSN-Authentication header, signed for its own path and body, and has
\* the Content-Type application/x-www-form-urlencoded, once, exactly when it
\* was made with a body: the requests of the mutations carry their encoded
\* parameters and the header, the list request carries no bytes and no such
\* header.
C14_Headers ==
  \A g \in procs :
    AtClient(g) =>
      /\ Cardinality(HeadersNamed(req[g], "X-NFSN-Authentication")) = 1
      /\ SignedFor(req[g], AuthOf(req[g]))
      /\ IF call[g].op = "GetRecords"
         THEN /\ HeadersNamed(req[g], "Content-Type") = {}
              /\ req[g].body.bytes = << >>
         ELSE /\ Cardinality(HeadersNamed(req[g], "Content-Type")) = 1
              /\ \A i \in HeadersNamed(req[g], "Content-Type") :
                   req[g].headers[i][2] = "application/x-www-form-urlencoded"
              /\ req[g].body.bytes # << >>
              /\ req[g].body.bytes =
                   Encode(toNfsnRecordParameters(call[g].records[req[g].rec]).params)

C14_Witness ==
  /\ pc[1] = "inflight"
  /\ call[1].op = "GetRecords"
  /\ Len(req[1].headers) = 1
  /\ req[1].headers[1][1] = authHeader

Encoded == probe.fn = "encode" /\ probe.out.ok
WholeSeconds(ttl) == ttl \div TicksPerSecond
TtlOfBody(bytes) ==
  bytes[CHOOSE i \in 1..Len(bytes) : bytes[i][1] = "ttl"][2]

\* C15: the ttl parameter of an encoded record of any variant is the decimal
\* of the greater of 180 and the TTL in whole seconds: 60 s gives "180", 300 s
\* gives "300"; and no request carries a ttl below 180.
C15_TTLFloor ==
  /\ Encoded =>
       /\ probe.out.params.ttl =
            Itoa(IF WholeSeconds(probe.in.TTL) < 180 THEN 180
                 ELSE WholeSeconds(probe.in.TTL))
       /\ probe.in.TTL = 60 * TicksPerSecond => probe.out.params.ttl = << "1","8","0" >>
       /\ probe.in.TTL = 300 * TicksPerSecond => probe.out.params.ttl = << "3","0","0" >>
  /\ \A g \in procs :
       (AtClient(g) /\ call[g].op # "GetRecords") =>
         DecVal(TtlOfBody(req[g].body.bytes)) >= 180

C15_Witness ==
  /\ Encoded
  /\ probe.in.kind = "SRV"
  /\ probe.in.TTL = 180 * TicksPerSecond - 1
  /\ probe.out.params.ttl = << "1","8","0" >>

Decoded1 == probe.fn = "record" /\ probe.out.ok

\* C16: the TTL of a decoded record of any supported type is the ttl of the
\* wire record in seconds, neither more nor less, below 180 too.
C16_NoRefloor ==
  Decoded1 =>
    /\ probe.out.rec.TTL \div TicksPerSecond = probe.in.TTL
    /\ probe.out.rec.TTL % TicksPerSecond = 0

C16_Witness ==
  /\ Decoded1
  /\ probe.in.Type = tSRV
  /\ probe.in.TTL = 60
  /\ probe.out.rec.TTL = 60 * TicksPerSecond

CameBack == probe.fn = "record of encode"
SentBack == probe.fn = "encode of record"
SipTcp == << "_","s","i","p",".","_","t","c","p" >>

\* C17: encoding maps the name "@" to the wire name "" (for SRV, to
\* _SERVICE._TRANSPORT with nothing after it) and leaves every other name as
\* it is; decoding maps the wire name "" to "@" and leaves every other name
\* as it is; so "@" comes back as "@".
C17_ApexMapping ==
  /\ (Encoded /\ probe.in.kind # "SRV") =>
       probe.out.params.name = (IF probe.in.Name = << "@" >> THEN << >> ELSE probe.in.Name)
  /\ (Encoded /\ probe.in.kind = "SRV") =>
       /\ probe.in.Name = << "@" >> =>
            probe.out.params.name =
              << "_" >> \o probe.in.Service \o << ".","_" >> \o probe.in.Transport
       /\ probe.in.Name \notin { << "@" >>, << >> } =>
            probe.out.params.name =
              << "_" >> \o probe.in.Service \o << ".","_" >> \o probe.in.Transport
              \o << "." >> \o probe.in.Name
  /\ (Decoded1 /\ probe.in.Type # tSRV) =>
       probe.out.rec.Name = (IF probe.in.Name = << >> THEN << "@" >> ELSE probe.in.Name)
  /\ (Decoded1 /\ probe.in.Type = tSRV /\ probe.in.Name = SipTcp) =>
       probe.out.rec.Name = << "@" >>
  /\ (CameBack /\ probe.in.Name = << "@" >>) =>
       /\ probe.in.kind # "SRV" => probe.wire.Name = << >>
       /\ probe.out.ok
       /\ probe.out.rec.Name = << "@" >>

C17_Witness ==
  /\ CameBack
  /\ probe.in.kind = "SRV"
  /\ probe.in.Name = Apex
  /\ probe.wire.Name = SipTcp
  /\ probe.out.rec.Name = Apex

\* C18 as stated: a generic record of any variant, encoded, stored and
\* decoded, comes back equal to itself.
C18_Original ==
  CameBack => (probe.out.ok /\ probe.out.rec = probe.in)

\* C18, amended: a generic record of any variant whose TTL is a whole number
\* of seconds, 180 at least, and whose name is not empty comes back equal to
\* itself; any other comes back with the TTL the encoder sent (180 s for a
\* TTL below, whole seconds for a TTL with a fraction) and with the name "@"
\* for an empty name, and is otherwise equal to itself.
C18_Amended ==
  CameBack =>
    /\ probe.out.ok
    /\ (/\ probe.in.TTL % TicksPerSecond = 0
        /\ probe.in.TTL \div TicksPerSecond >= 180
        /\ probe.in.Name # << >>) => probe.out.rec = probe.in
    /\ probe.out.rec =
         [probe.in EXCEPT
            !.TTL = (IF WholeSeconds(@) < 180 THEN 180 ELSE WholeSeconds(@))
                    * TicksPerSecond,
            !.Name = IF @ = << >> THEN << "@" >> ELSE @]

C18_Witness ==
  /\ CameBack
  /\ probe.in.kind = "SRV"
  /\ probe.in.Name = << "a",".","b" >>
  /\ probe.in.TTL = 300 * TicksPerSecond
  /\ probe.in.Weight = 65535
  /\ probe.out.rec = probe.in

\* C19: an SRV wire record that decodes is encoded back to its own name,
\* data and aux.
C19_SrvMirror ==
  (SentBack /\ probe.in.Type = tSRV) =>
    /\ probe.out.ok
    /\ probe.out.params.name = probe.in.Name
    /\ probe.out.params.data = probe.in.Data
    /\ probe.out.params.aux = Itoa(probe.in.Aux)

\* C20: a wire record of type A or AAAA decodes to an Address record with
\* the address its data spells, whichever type it states, and fails to decode
\* when the data spells none; an Address record encodes to type A when its IP
\* is a 4-byte address and to AAAA when it is not.
C20_AddressFamily ==
  /\ (probe.fn = "record" /\ probe.in.Type \in { tA, tAAAA }) =>
       /\ probe.out.ok <=>
            probe.in.Data \in { ip4.text, ip6.text, ip6Long, ip4in6.text }
       /\ probe.out.ok =>
            /\ probe.out.rec.kind = "Address"
            /\ probe.in.Data = ip4.text => probe.out.rec.IP = ip4
            /\ probe.in.Data \in { ip6.text, ip6Long } => probe.out.rec.IP = ip6
            /\ probe.in.Data = ip4in6.text => probe.out.rec.IP = ip4in6
  /\ (Encoded /\ probe.in.kind = "Address") =>
       /\ probe.out.params.type = << "A" >> <=> probe.in.IP.is4
       /\ probe.out.params.type = << "A","A","A","A" >> <=> ~probe.in.IP.is4
       /\ probe.out.params.data = probe.in.IP.text
  /\ (SentBack /\ probe.in.Type \in { tA, tAAAA }) =>
       /\ probe.out.ok
       /\ probe.out.params.type = << "A" >> <=> probe.in.Data = ip4.text

C20_Witness ==
  /\ SentBack
  /\ probe.in.Type = tA
  /\ probe.in.Data = ip6Long
  /\ probe.rec.IP = ip6
  /\ probe.out.params.type = tAAAA
  /\ probe.out.params.data = ip6.text

\* the types that have a variant of their own
Dedicated == { tA, tAAAA, tCNAME, tNS, tMX, tTXT, tSRV }
RawOf(w) ==
  [kind |-> "RR", Type |-> w.Type,
   Name |-> IF w.Name = << >> THEN << "@" >> ELSE w.Name,
   Data |-> w.Data, TTL |-> w.TTL * TicksPerSecond]

\* C21 as stated: a wire record of type PTR, or of any other type without a
\* variant of its own, decodes to the Raw record with its type, name (the
\* apex mapped), data and TTL.
C21_Original ==
  (probe.fn = "record" /\ probe.in.Type \notin Dedicated) =>
    (probe.out.ok /\ probe.out.rec = RawOf(probe.in))

\* C21, amended: a wire record of type PTR decodes to the Raw record with
\* its type, name (the apex mapped), data and TTL; a wire record of any other
\* type without a variant of its own does not decode: record() returns an
\* unsupported-type error.
C21_Amended ==
  /\ (probe.fn = "record" /\ probe.in.Type = << "P","T","R" >>) =>
       (probe.out.ok /\ probe.out.rec = RawOf(probe.in))
  /\ (probe.fn = "record" /\ probe.in.Type \notin Dedicated \cup { << "P","T","R" >> }) =>
       ~probe.out.ok

C21_Witness ==
  /\ probe.fn = "record"
  /\ probe.in.Type = tPTR
  /\ probe.in.Name = << >>
  /\ probe.in.TTL = 60
  /\ probe.out.rec = [kind |-> "RR", Type |-> tPTR, Name |-> Apex, Data |-> targetXC,
                       TTL |-> 60 * TicksPerSecond]

PassedThrough(r) ==
  [type |-> r.Type,
   name |-> IF r.Name = << "@" >> THEN << >> ELSE r.Name,
   data |-> r.Data,
   ttl |-> Itoa(IF WholeSeconds(r.TTL) < 180 THEN 180 ELSE WholeSeconds(r.TTL))]

\* C22 as stated: a Raw record, of type PTR or of an unknown type, encodes
\* to its own type, its name (the apex mapped), its data and its floored ttl.
C22_Original ==
  (probe.fn = "encode" /\ probe.in.kind = "RR") =>
    (probe.out.ok /\ probe.out.params = PassedThrough(probe.in))

\* C22, amended: a Raw record of type PTR encodes to its own type, its name
\* (the apex mapped), its data and its floored ttl; a Raw record of any other
\* type that has no variant of its own does not encode:
\* toNfsnRecordParameters returns an unsupported-type error.
C22_Amended ==
  /\ (probe.fn = "encode" /\ probe.in.kind = "RR" /\ probe.in.Type = << "P","T","R" >>) =>
       (probe.out.ok /\ probe.out.params = PassedThrough(probe.in))
  /\ (probe.fn = "encode" /\ probe.in.kind = "RR" /\ probe.in.Type # << "P","T","R" >>) =>
       ~probe.out.ok

C22_Witness ==
  /\ probe.fn = "encode"
  /\ probe.in.kind = "RR"
  /\ probe.in.Type = tLOC
  /\ ~probe.out.ok

\* C23: an SRV record encodes to type SRV, to the name _SERVICE._TRANSPORT,
\* followed by .NAME unless NAME is the apex, and to the data
\* WEIGHT PORT TARGET with one space between; xmpp, tcp, "@", 20, 30,
\* test.com gives _xmpp._tcp and 20 30 test.com, the name test gives
\* _xmpp._tcp.test.
C23_SrvEncode ==
  (probe.fn = "encode" /\ probe.in.kind = "SRV") =>
    /\ probe.out.ok
    /\ probe.out.params.type = << "S","R","V" >>
    /\ probe.out.params.name =
         << "_" >> \o probe.in.Service \o << ".","_" >> \o probe.in.Transport
         \o (IF probe.in.Name \in { << "@" >>, << >> } THEN << >>
             ELSE << "." >> \o probe.in.Name)
    /\ probe.out.params.data =
         Itoa(probe.in.Weight) \o << " " >> \o Itoa(probe.in.Port) \o << " " >>
         \o probe.in.Target
    /\ probe.in.Service = << "x","m","p","p" >> =>
         /\ probe.out.params.data =
              << "2","0"," ","3","0"," ","t","e","s","t",".","c","o","m" >>
         /\ probe.in.Name = << "@" >> =>
              probe.out.params.name = << "_","x","m","p","p",".","_","t","c","p" >>
         /\ probe.in.Name = << "t","e","s","t" >> =>
              probe.out.params.name =
                << "_","x","m","p","p",".","_","t","c","p",".","t","e","s","t" >>

C23_Witness ==
  /\ probe.fn = "encode"
  /\ probe.in.kind = "SRV"
  /\ probe.in.Service = xmpp
  /\ probe.in.Name = << "t","e","s","t" >>
  /\ probe.out.params.name = << "_" >> \o xmpp \o << ".","_" >> \o tcp \o << ".","t","e","s","t" >>

\* what the SRV wire names and data of the inputs should decode to
SrvNameTable ==
  [n \in SrvWireNames |->
     CASE n = SipTcp -> [ok |-> TRUE, svc |-> sip, name |-> << "@" >>]
       [] n = SipTcp \o << "." >> -> [ok |-> TRUE, svc |-> sip, name |-> << "@" >>]
       [] n = SipTcp \o << ".","w" >> -> [ok |-> TRUE, svc |-> sip, name |-> << "w" >>]
       [] n = SipTcp \o << ".","a",".","b" >> ->
            [ok |-> TRUE, svc |-> sip, name |-> << "a",".","b" >>]
       [] n = SipTcp \o << ".","@" >> -> [ok |-> TRUE, svc |-> sip, name |-> << "@" >>]
       [] n = << "s","i","p",".","t","c","p",".","w" >> ->
            [ok |-> TRUE, svc |-> sip, name |-> << "w" >>]
       [] OTHER -> [ok |-> FALSE, svc |-> << >>, name |-> << >>]]
SrvDataTable ==
  [d \in SrvWireData |->
     CASE d = << "0"," ","4","4","3"," ","x",".","c" >> ->
            [ok |-> TRUE, weight |-> 0, port |-> 443]
       [] d = << "0"," "," ","4","4","3","\t","x",".","c" >> ->
            [ok |-> TRUE, weight |-> 0, port |-> 443]
       [] d = << "0","1","0"," ","4","4","3"," ","x",".","c" >> ->
            [ok |-> TRUE, weight |-> 10, port |-> 443]
       [] d = << "6","5","5","3","5"," ","6","5","5","3","5"," ","x",".","c" >> ->
            [ok |-> TRUE, weight |-> 65535, port |-> 65535]
       [] OTHER -> [ok |-> FALSE, weight |-> 0, port |-> 0]]

\* C24: an SRV wire record fails to decode when its name has fewer than two
\* fields between dots, when its data has not exactly three fields between
\* white space, or when weight or port is no unsigned 16-bit number; any
\* other decodes to the service and transport without their leading "_", the
\* name after the second dot (the apex when there is none), and the weight,
\* port and target of the data.
C24_SrvDecode ==
  (probe.fn = "record" /\ probe.in.Type = << "S","R","V" >>) =>
    /\ probe.out.ok <=>
         (SrvNameTable[probe.in.Name].ok /\ SrvDataTable[probe.in.Data].ok)
    /\ probe.out.ok =>
         /\ probe.out.rec.kind = "SRV"
         /\ probe.out.rec.Service = SrvNameTable[probe.in.Name].svc
         /\ probe.out.rec.Transport = << "t","c","p" >>
         /\ probe.out.rec.Name = SrvNameTable[probe.in.Name].name
         /\ probe.out.rec.Weight = SrvDataTable[probe.in.Data].weight
         /\ probe.out.rec.Port = SrvDataTable[probe.in.Data].port
         /\ probe.out.rec.Target = << "x",".","c" >>

C24_Witness ==
  /\ probe.fn = "record"
  /\ probe.in.Type = tSRV
  /\ probe.in.Name = SipTcp \o << ".","a",".","b" >>
  /\ probe.in.Data = << "0","1","0"," ","4","4","3"," ","x",".","c" >>
  /\ probe.out.ok
  /\ probe.out.rec.Weight = 10

\* C25: the parameters of an MX or SRV record are name, type, data, ttl and
\* aux, aux being the preference or the priority; the parameters of any
\* other record are name, type, data and ttl.
C25_AuxPlacement ==
  Encoded =>
    IF probe.in.kind \in { "MX", "SRV" }
    THEN /\ DOMAIN probe.out.params = { "name", "type", "data", "ttl", "aux" }
         /\ probe.out.params.aux =
              Itoa(IF probe.in.kind = "MX" THEN probe.in.Preference
                   ELSE probe.in.Priority)
    ELSE DOMAIN probe.out.params = { "name", "type", "data", "ttl" }

C25_Witness ==
  /\ Encoded
  /\ probe.in.kind = "MX"
  /\ probe.in.Preference = 65535
  /\ probe.out.params.aux = << "6","5","5","3","5" >>

\* C30: an MX or SRV wire record either fails to decode or decodes to the
\* preference or priority that is its aux, and an SRV record to the weight
\* and port its data spells: an aux outside 0..65535 is not changed into
\* another number.
C30_NoSilentWrap ==
  (probe.fn = "record" /\ probe.out.ok) =>
    /\ probe.in.Type = << "M","X" >> => probe.out.rec.Preference = probe.in.Aux
    /\ probe.in.Type = << "S","R","V" >> =>
         /\ probe.out.rec.Priority = probe.in.Aux
         /\ probe.out.rec.Weight = SrvDataTable[probe.in.Data].weight
         /\ probe.out.rec.Port = SrvDataTable[probe.in.Data].port

BytesHashed(body) == IF body.present THEN body.bytes ELSE << >>
TokenOf(in) ==
  << in.p.Login, Itoa(in.timestamp), in.salt,
     Sha1(<< in.p.Login, Itoa(in.timestamp), in.salt, in.p.APIKey, in.path,
             Sha1(BytesHashed(in.body)) >>) >>

\* C26: the token is determined by login, API key, path, body, timestamp and
\* salt: it is login;timestamp;salt;H(login;timestamp;salt;apiKey;path;H(body))
\* with an absent body hashed as the empty sequence, the same request signed
\* again gets the same token, and written out the token is those fields and
\* the hexadecimal digests with semicolons between them.
C26_PureSigner ==
  /\ probe.fn \in { "sign", "sign again" } => probe.out.value = TokenOf(probe.in)
  /\ probe.fn = "sign again" => probe.out.value = probe.first.value
  /\ probe.fn = "authVal" =>
       probe.out =
         probe.in.p.Login \o << ";" >> \o Itoa(probe.in.timestamp) \o << ";" >>
         \o probe.in.salt \o << ";" >>
         \o Hex(sha1Sum(BytesOf(
              probe.in.p.Login \o << ";" >> \o Itoa(probe.in.timestamp) \o << ";" >>
              \o probe.in.salt \o << ";" >> \o probe.in.p.APIKey \o << ";" >>
              \o probe.in.path \o << ";" >>
              \o Hex(sha1Sum(BytesOf(BytesHashed(probe.in.body)))))))

C26_Witness ==
  /\ probe.fn = "sign again"
  /\ ~probe.in.body.present
  /\ probe.out.value = probe.first.value

SigVector ==
  { [p |-> TestProvider, path |-> getInfo, body |-> b, timestamp |-> 1012121212,
     salt |-> testSalt] : b \in { NoBody, BodyOf(<< >>) } }
SigExpected ==
  << "t","e","s","t","u","s","e","r",";","1","0","1","2","1","2","1","2","1","2",";",
     "d","k","w","o","2","8","S","i","l","e","4","j","d","X","k","w",";",
     "0","f","a","8","9","3","2","e","1","2","2","d","5","6","e","2","f","6","d","1",
     "5","5","0","f","9","a","a","b","3","9","c","4","a","e","f","8","b","f","c","4" >>

\* C27: for login "testuser", API key "p3kxmRKf9dk3l6ls", path
\* /site/example/getInfo, an empty body, timestamp 1012121212 and salt
\* "dkwo28Sile4jdXkw" the auth value is, byte for byte,
\* testuser;1012121212;dkwo28Sile4jdXkw;0fa8932e122d56e2f6d1550f9aab39c4aef8bfc4.
C27_Vector ==
  (probe.fn = "authVal" /\ probe.in \in SigVector) => probe.out = SigExpected

C27_Witness ==
  /\ probe.fn = "authVal"
  /\ probe.in \in SigVector
  /\ ~probe.in.body.present

Mutation(g) == call[g].op \in { "AppendRecords", "SetRecords", "DeleteRecords" }
HashedBody(r) == AuthOf(r)[4][2][6]

\* C28: signing leaves the method, the URL and the bytes of the body of the
\* request as they were and adds no header but the authentication header
\* makeRequest sets from it, and the body of a mutation request at the client
\* is the encoded parameters of its record, the bytes hashed into its token.
C28_BodyKept ==
  /\ [](\A g \in procs :
          (AtClient(g) /\ Mutation(g)) =>
            /\ req[g].body =
                 BodyOf(Encode(toNfsnRecordParameters(call[g].records[req[g].rec]).params))
            /\ HashedBody(req[g]) = Sha1(req[g].body.bytes))
  /\ [][\A g \in procs :
          (pc[g] = "build" /\ pc'[g] = "do") =>
            /\ req'[g].method = req[g].method
            /\ req'[g].url = req[g].url
            /\ req'[g].body.bytes = req[g].body.bytes
            /\ HashedBody(req'[g]) = Sha1(req[g].body.bytes)
            /\ req'[g].headers =
                 (IF req[g].body.present THEN << ContentType >> ELSE << >>)
                 \o << << authHeader, AuthOf(req'[g]) >> >>]_vars

C28_Witness ==
  /\ pc[1] = "inflight"
  /\ call[1].op = "SetRecords"
  /\ req[1].body.present
  /\ Len(req[1].body.bytes) >= 4
  /\ HashedBody(req[1]) = Sha1(req[1].body.bytes)

\* the remote zone as { name, type, data } entries, and replaceRR as the
\* remote carries it out: every entry of the same name and type gives way to
\* the one sent
ZoneEntry(r) ==
  LET params == toNfsnRecordParameters(r).params
  IN  [name |-> params["name"], type |-> params["type"], data |-> params["data"]]
RemoteReplaceRR(zone, entry) ==
  { z \in zone : ~(z.name = entry.name /\ z.type = entry.type) } \cup { entry }
\* the zone after the requests 1..n of g that the remote carried out, in the
\* order they were sent
RECURSIVE ZoneAfter(_, _)
ZoneAfter(g, n) ==
  IF n = 0 THEN {}
  ELSE IF n \in applied[g]
  THEN RemoteReplaceRR(ZoneAfter(g, n - 1), ZoneEntry(call[g].records[n]))
  ELSE ZoneAfter(g, n - 1)

\* C29: after a SetRecords call that returns its whole input and a nil error,
\* every returned record is in the remote zone, also when several records of
\* the input have the same name and type.
C29_SetPresent ==
  \A g \in procs :
    (/\ pc[g] = "done"
     /\ call[g].op = "SetRecords"
     /\ ret[g].err = "none"
     /\ ret[g].list = call[g].records) =>
      \A i \in 1..Len(ret[g].list) :
        ZoneEntry(ret[g].list[i]) \in ZoneAfter(g, Len(call[g].records))

====
